---- MODULE Spec2Model ----
(***************************************************************************)
(* Model of the taste analyzer and the recommendation engine of            *)
(* recommendations.py and of the liked-songs mirror of LikedToPlaylist.py. *)
(*                                                                         *)
(* Time is counted in whole seconds since analyze_taste read start_time;   *)
(* it advances only while an API call is in flight.  Track, artist and     *)
(* playlist ids are natural numbers, 0 standing for a missing id (None).   *)
(* Scores are fixed-point numbers, Scale units to the point.               *)
(***************************************************************************)
EXTENDS Integers, Sequences, FiniteSets, TLC

VARIABLES
    library,    \* the user's saved tracks as the Web API serves them
    an,         \* one run of MusicTasteAnalyzer.analyze_taste
    an2,        \* a second run of analyze_taste against the same API
    rec,        \* one run of RecommendationEngine.generate_recommendations
    sc,         \* the arguments and results of RecommendationEngine.score_track
    pl,         \* one playlist being filled (recommendation playlist or mirror)
    mb          \* the MusicBrainz cache and the enrichment requests that share it

vars == <<library, an, an2, rec, sc, pl, mb>>

(***************************************************************************)
(* Bounds of the model                                                     *)
(***************************************************************************)
MaxLib == 16            \* the largest library of a timed analysis, in saved tracks
MaxBigLib == 201        \* the largest library of an instant analysis
MaxPage == 2            \* the most items one playlist-items page carries
MaxPlaylistCalls == 2   \* the playlist is read to its end within this many calls
MaxLatency == 3         \* the longest an API call lasts, in seconds
MaxArtists == 12        \* the most artists credited on one track
MaxExtraTracks == 3     \* the tracks ranked besides the first one
MaxRecs == 250          \* the longest recommendation list put in a playlist
MaxMirrorLib == 250     \* the largest library mirrored into a playlist
MaxRequests == 3        \* the enrichment requests that share the cache
MaxFetchIds == 151      \* the most ids handed to a batched fetch
MaxThreads == 2         \* request threads that share the enricher
MaxClock == 20          \* tenths of a second the clock advances
MaxDays == 31           \* days that pass while the cache is used
MaxCalls == 2           \* calls of the enricher in a row

(***************************************************************************)
(* Program constants                                                       *)
(***************************************************************************)
NoId == 0
ExclusionLimit == 200
ExclusionBatch == 50
LikedRandomOffsetMax == 150
LikedPageMax == 50
HardCeiling == 10
TopArtists == 10
TopGenres == 10
GenreSeeds == 5
PlaylistFetchLimit == 1
PlaylistTracksLimit == 3
AddBatch == 100
MirrorPage == 50
MirrorChunk == 100

Min(a, b) == IF a < b THEN a ELSE b
Max(a, b) == IF a > b THEN a ELSE b
Take(s, n) == SubSeq(s, 1, Min(n, Len(s)))
Range(s) == {s[i] : i \in 1..Len(s)}

(***************************************************************************)
(* The Web API as the analyzer sees it                                     *)
(***************************************************************************)
\* The artists credited on a track of the catalogue.
TrackArtists(id) ==
    IF id % 4 = 0 THEN <<1, 2>> ELSE <<1 + (id % 3)>>

\* The genres the catalogue lists for an artist.
ArtistGenres(a) ==
    CASE a = 1 -> <<"rock", "indie">>
      [] a = 2 -> <<"rock">>
      [] a = 3 -> <<"jazz">>
      [] a = 20 -> <<"rock">>
      [] OTHER -> <<>>

TrackOf(id) == [id |-> id, artists |-> TrackArtists(id)]

\* The saved item at a position of the library: a local file has no track id.
SavedItem(lib, p) == IF p = lib.local THEN TrackOf(NoId) ELSE TrackOf(p)

\* sp.current_user_saved_tracks(limit, offset): one page of the library.
CurrentUserSavedTracks(lib, limit, offset) ==
    LET n == Max(0, Min(limit, lib.size - offset))
    IN  [i \in 1..n |-> SavedItem(lib, offset + i)]

HasId(t) == t.id # NoId
IdsOf(tracks) == [i \in 1..Len(tracks) |-> tracks[i].id]

(***************************************************************************)
(* collections.Counter: keys in first-seen order, each with its count      *)
(***************************************************************************)
CounterKeys(c) == [i \in 1..Len(c) |-> c[i][1]]

CounterAdd(c, k) ==
    IF \E i \in 1..Len(c) : c[i][1] = k
    THEN [i \in 1..Len(c) |-> IF c[i][1] = k THEN <<k, c[i][2] + 1>> ELSE c[i]]
    ELSE Append(c, <<k, 1>>)

RECURSIVE CounterUpdate(_, _)
CounterUpdate(c, ks) ==
    IF ks = <<>> THEN c
    ELSE CounterUpdate(CounterAdd(c, Head(ks)), Tail(ks))

\* Insert an item after every item whose count is at least its own.
RECURSIVE InsertDesc(_, _)
InsertDesc(sorted, item) ==
    IF sorted = <<>> THEN <<item>>
    ELSE IF Head(sorted)[2] >= item[2]
         THEN <<Head(sorted)>> \o InsertDesc(Tail(sorted), item)
         ELSE <<item>> \o sorted

\* sorted(items, key=count, reverse=True): stable, descending by count.
RECURSIVE SortedDesc(_)
SortedDesc(items) ==
    IF items = <<>> THEN <<>>
    ELSE InsertDesc(SortedDesc(SubSeq(items, 1, Len(items) - 1)), items[Len(items)])

\* Variant: the first n keys seen, whatever their counts.
MostCommonUnsorted(c, n) == Take(c, n)

\* Counter.most_common(n)
MostCommon(c, n) == Take(SortedDesc(c), n)

(***************************************************************************)
(* MusicTasteAnalyzer.analyze_taste, one step per API call or stage gate   *)
(***************************************************************************)
NoResult == [kind |-> "none"]

AnalyzerStart(budget, incl, plimit, perPlaylist, likedLimit) ==
    [ pc |-> "exclusion",
      max_analysis_time |-> budget,
      include_playlists |-> incl,
      playlist_limit |-> plimit,
      tracks_per_playlist |-> perPlaylist,
      liked_songs_limit |-> likedLimit,
      now |-> 0,
      offset |-> 0,
      retry |-> 0,
      liked_song_ids_for_exclusion |-> <<>>,
      liked_tracks |-> <<>>,
      liked_failure |-> "none",
      playlist_tracks |-> <<>>,
      all_tracks |-> <<>>,
      artist_ids |-> <<>>,
      top_artist_ids |-> <<>>,
      top_genres |-> <<>>,
      avg_features |-> {},
      gate |-> [liked |-> -1, playlists |-> -1, genre |-> -1, audio |-> -1],
      ran |-> {},
      skipped |-> {},
      calls |-> [exclusion |-> 0, liked |-> 0, playlists |-> 0,
                 playlist_items |-> 0, artists |-> 0, audio_features |-> 0],
      result |-> NoResult ]

\* One API call: the clock advances by the call's latency.
Called(st, site, lat) ==
    [st EXCEPT !.now = @ + lat, !.calls[site] = @ + 1]

\* One turn of the loop of get_liked_song_ids_for_exclusion; any exception
\* ends the fetch with the ids gathered so far.
GetLikedSongIdsPage(st, lib, ev) ==
    LET t == Called(st, "exclusion", ev.lat)
        items == CurrentUserSavedTracks(lib, ExclusionBatch, st.offset)
        track_ids == st.liked_song_ids_for_exclusion \o IdsOf(SelectSeq(items, HasId))
        offset == st.offset + ExclusionBatch
    IN  IF ev.outcome # "ok" \/ items = <<>>
        THEN [t EXCEPT !.pc = "liked"]
        ELSE [t EXCEPT !.liked_song_ids_for_exclusion = track_ids,
                       !.offset = offset,
                       !.pc = IF Len(track_ids) < ExclusionLimit /\ offset < ExclusionLimit
                              THEN "exclusion" ELSE "liked"]

\* Variant: the items of a page are taken as they come.
GetLikedSongsUnfiltered(lib, limit, ev) ==
    LET first == CurrentUserSavedTracks(lib, Min(limit, LikedPageMax), ev.random_offset)
        fallback == CurrentUserSavedTracks(lib, Min(limit, LikedPageMax), 0)
    IN  IF ev.outcome # "ok" THEN [tracks |-> <<>>, lat |-> ev.lat, calls |-> 1]
        ELSE IF first # <<>>
             THEN [tracks |-> Take(first, limit), lat |-> ev.lat, calls |-> 1]
             ELSE IF ev.fb_outcome # "ok"
                  THEN [tracks |-> <<>>, lat |-> ev.lat + ev.fb_lat, calls |-> 2]
                  ELSE [tracks |-> Take(fallback, limit),
                        lat |-> ev.lat + ev.fb_lat, calls |-> 2]

\* get_liked_songs: one call at a random offset, a second one at offset 0
\* when the first page is empty; any exception yields the empty list.
GetLikedSongs(lib, limit, ev) ==
    LET first == CurrentUserSavedTracks(lib, Min(limit, LikedPageMax), ev.random_offset)
        fallback == CurrentUserSavedTracks(lib, Min(limit, LikedPageMax), 0)
    IN  IF ev.outcome # "ok" THEN [tracks |-> <<>>, lat |-> ev.lat, calls |-> 1]
        ELSE IF first # <<>>
             THEN [tracks |-> Take(SelectSeq(first, HasId), limit), lat |-> ev.lat, calls |-> 1]
             ELSE IF ev.fb_outcome # "ok"
                  THEN [tracks |-> <<>>, lat |-> ev.lat + ev.fb_lat, calls |-> 2]
                  ELSE [tracks |-> Take(SelectSeq(fallback, HasId), limit),
                        lat |-> ev.lat + ev.fb_lat, calls |-> 2]

\* Variant: STEP 1 without the emergency exit.
LikedStageNoCeiling(st, lib, ev) ==
    LET got == GetLikedSongs(lib, st.liked_songs_limit, ev)
    IN  [st EXCEPT !.now = @ + got.lat, !.calls.liked = @ + got.calls,
                   !.gate.liked = st.now + got.lat,
                   !.liked_tracks = got.tracks,
                   !.all_tracks = @ \o got.tracks,
                   !.pc = "playlists"]

\* STEP 1 of analyze_taste, with the emergency exit after the fetch.
LikedStage(st, lib, ev) ==
    LET got == GetLikedSongs(lib, st.liked_songs_limit, ev)
        t == [st EXCEPT !.now = @ + got.lat, !.calls.liked = @ + got.calls,
                        !.gate.liked = st.now + got.lat,
                        !.liked_tracks = got.tracks,
                        !.all_tracks = @ \o got.tracks]
    IN  IF t.now > HardCeiling
        THEN [t EXCEPT !.pc = "raised",
                       !.result = [kind |-> "raise", exception |-> "TimeoutException"]]
        ELSE [t EXCEPT !.pc = "playlists"]

\* Variant: the comparison of a gate turned around.
ExceedsInverted(elapsed, budget, tenths) == elapsed * 10 < budget * tenths

\* elapsed > max_analysis_time * fraction, fraction given in tenths.
Exceeds(elapsed, budget, tenths) == elapsed * 10 > budget * tenths

\* Variant: playlists are attempted whenever 30% of the budget is not used.
PlaylistGateUnasked(st) ==
    IF Exceeds(st.now, st.max_analysis_time, 3)
    THEN [st EXCEPT !.gate.playlists = st.now, !.pc = "validate"]
    ELSE [st EXCEPT !.gate.playlists = st.now,
                    !.ran = @ \cup {"playlists"},
                    !.retry = 0,
                    !.pc = "get_user_playlists"]

\* STEP 2 gate: playlists are attempted only on request and within 30%.
PlaylistGate(st) ==
    IF st.include_playlists /\ st.playlist_limit > 0
    THEN IF Exceeds(st.now, st.max_analysis_time, 3)
         THEN [st EXCEPT !.include_playlists = FALSE,
                         !.gate.playlists = st.now,
                         !.skipped = @ \cup {"playlists"},
                         !.pc = "validate"]
         ELSE [st EXCEPT !.gate.playlists = st.now,
                         !.ran = @ \cup {"playlists"},
                         !.retry = 0,
                         !.pc = "get_user_playlists"]
    ELSE [st EXCEPT !.gate.playlists = st.now, !.pc = "validate"]

\* One attempt of get_user_playlists(limit=1).
UserPlaylistsCall(st, ev) ==
    LET t == Called(st, "playlists", ev.lat)
    IN  CASE ev.outcome = "ok" ->
               IF ev.n > 0 /\ ev.pid # NoId
               THEN [t EXCEPT !.retry = 0, !.offset = 0, !.playlist_tracks = <<>>,
                              !.pc = "get_playlist_tracks"]
               ELSE [t EXCEPT !.retry = 0, !.pc = "validate"]
          [] ev.outcome = "spotify_error" ->
               IF st.retry = 1
               THEN [t EXCEPT !.retry = 0, !.pc = "validate"]
               ELSE [t EXCEPT !.retry = 1]
          [] OTHER -> [t EXCEPT !.retry = 0, !.pc = "validate"]

\* get_playlist_tracks returns: analyze_taste extends all_tracks.
PlaylistTracksReturn(t, tracks) ==
    [t EXCEPT !.playlist_tracks = tracks,
              !.retry = 0,
              !.offset = 0,
              !.all_tracks = @ \o tracks,
              !.pc = "validate"]

\* One attempt of one page of get_playlist_tracks(playlist_id, limit=3).
PlaylistItemsCall(st, ev) ==
    LET t == Called(st, "playlist_items", ev.lat)
        limit == PlaylistTracksLimit
        valid == SelectSeq(ev.items, HasId)
        tracks == st.playlist_tracks \o valid
    IN  CASE ev.outcome = "ok" ->
               IF ev.items = <<>>
               THEN PlaylistTracksReturn(t, st.playlist_tracks)
               ELSE IF ev.next /\ Len(tracks) < limit
                    THEN [t EXCEPT !.playlist_tracks = tracks,
                                   !.offset = @ + Len(ev.items),
                                   !.retry = 0]
                    ELSE PlaylistTracksReturn(t, Take(tracks, limit))
          [] ev.outcome = "spotify_error" ->
               IF st.retry = 1
               THEN PlaylistTracksReturn(t, st.playlist_tracks)
               ELSE [t EXCEPT !.retry = 1]
          [] OTHER -> PlaylistTracksReturn(t, st.playlist_tracks)

\* Variant: tracks without id are dropped, repeated ids are kept.
UniqueTracksKeepAll(done, tracks) == done \o SelectSeq(tracks, HasId)

\* {track['id']: track for track in all_tracks if track.get('id')}: a key
\* keeps the place of its first track and the value of its last.
RECURSIVE UniqueTracks(_, _)
UniqueTracks(done, tracks) ==
    IF tracks = <<>> THEN done
    ELSE LET t == Head(tracks)
         IN  IF ~HasId(t) THEN UniqueTracks(done, Tail(tracks))
             ELSE IF \E i \in 1..Len(done) : done[i].id = t.id
                  THEN UniqueTracks([i \in 1..Len(done) |->
                                        IF done[i].id = t.id THEN t ELSE done[i]],
                                    Tail(tracks))
                  ELSE UniqueTracks(Append(done, t), Tail(tracks))

\* The artist ids of the tracks, in the order the counting loop meets them.
RECURSIVE ArtistOccurrences(_)
ArtistOccurrences(tracks) ==
    IF tracks = <<>> THEN <<>>
    ELSE SelectSeq(Head(tracks).artists, LAMBDA a : a # NoId)
            \o ArtistOccurrences(Tail(tracks))

ArtistCounter(tracks) == CounterUpdate(<<>>, ArtistOccurrences(tracks))

TopArtistIds(artist_counter) == CounterKeys(MostCommon(artist_counter, TopArtists))

\* Variant: the analysis goes on without checking that there are tracks.
ValidateNoEmptyCheck(st) ==
    LET unique == UniqueTracks(<<>>, st.all_tracks)
        artist_counter == ArtistCounter(unique)
    IN  [st EXCEPT !.all_tracks = unique,
                   !.artist_ids = CounterKeys(artist_counter),
                   !.top_artist_ids = TopArtistIds(artist_counter),
                   !.pc = "genre"]

\* "Validate we have tracks", "Remove duplicates" and the artist count.
Validate(st) ==
    IF st.all_tracks = <<>>
    THEN [st EXCEPT !.pc = "done",
                    !.result = [kind |-> "error", track_count |-> 0]]
    ELSE LET unique == UniqueTracks(<<>>, st.all_tracks)
             artist_counter == ArtistCounter(unique)
         IN  [st EXCEPT !.all_tracks = unique,
                        !.artist_ids = CounterKeys(artist_counter),
                        !.top_artist_ids = TopArtistIds(artist_counter),
                        !.pc = "genre"]

\* Variant: the genre gate opens up to 60% of the budget.
GenreGateLate(st) ==
    IF Exceeds(st.now, st.max_analysis_time, 6)
    THEN [st EXCEPT !.gate.genre = st.now,
                    !.skipped = @ \cup {"genre"},
                    !.top_genres = <<>>,
                    !.pc = "audio"]
    ELSE IF Take(st.top_artist_ids, TopArtists) = <<>>
         THEN [st EXCEPT !.gate.genre = st.now,
                         !.ran = @ \cup {"genre"},
                         !.top_genres = <<>>,
                         !.pc = "audio"]
         ELSE [st EXCEPT !.gate.genre = st.now,
                         !.ran = @ \cup {"genre"},
                         !.retry = 0,
                         !.pc = "get_artist_genres"]

\* STEP 4 gate: genres are analysed only within 50% of the budget.
GenreGate(st) ==
    IF Exceeds(st.now, st.max_analysis_time, 5)
    THEN [st EXCEPT !.gate.genre = st.now,
                    !.skipped = @ \cup {"genre"},
                    !.top_genres = <<>>,
                    !.pc = "audio"]
    ELSE IF Take(st.top_artist_ids, TopArtists) = <<>>
         THEN [st EXCEPT !.gate.genre = st.now,
                         !.ran = @ \cup {"genre"},
                         !.top_genres = <<>>,
                         !.pc = "audio"]
         ELSE [st EXCEPT !.gate.genre = st.now,
                         !.ran = @ \cup {"genre"},
                         !.retry = 0,
                         !.pc = "get_artist_genres"]

\* The genres of a batch of artists, in the order Counter.update meets them.
RECURSIVE GenreOccurrences(_)
GenreOccurrences(batch) ==
    IF batch = <<>> THEN <<>>
    ELSE ArtistGenres(Head(batch)) \o GenreOccurrences(Tail(batch))

\* Variant: the first genres tallied, whatever their counts.
TopGenresUnsorted(genre_counter) == Take(genre_counter, TopGenres)

\* sorted(genres.items(), key=lambda x: x[1], reverse=True)[:10]
TopGenresOf(genre_counter) == Take(SortedDesc(genre_counter), TopGenres)

\* One attempt of the single batch of get_artist_genres.
ArtistsCall(st, ev) ==
    LET t == Called(st, "artists", ev.lat)
        batch == Take(st.top_artist_ids, TopArtists)
        genre_counter == CounterUpdate(<<>>, GenreOccurrences(batch))
    IN  CASE ev.outcome = "ok" ->
               [t EXCEPT !.top_genres = TopGenresOf(genre_counter), !.retry = 0,
                         !.pc = "audio"]
          [] ev.outcome = "spotify_error" ->
               IF st.retry = 1
               THEN [t EXCEPT !.top_genres = <<>>, !.retry = 0, !.pc = "audio"]
               ELSE [t EXCEPT !.retry = 1]
          [] OTHER -> [t EXCEPT !.top_genres = <<>>, !.retry = 0, !.pc = "audio"]

\* STEP 5 gate: audio features are fetched only within 60% of the budget.
AudioGate(st) ==
    IF Exceeds(st.now, st.max_analysis_time, 6)
    THEN [st EXCEPT !.gate.audio = st.now,
                    !.skipped = @ \cup {"audio"},
                    !.avg_features = {},
                    !.pc = "finish"]
    ELSE [st EXCEPT !.gate.audio = st.now,
                    !.ran = @ \cup {"audio"},
                    !.retry = 0,
                    !.pc = "get_track_audio_features"]

\* Variant: a network error of the audio-features call is not caught.
AudioFeaturesCallRaising(st, ev) ==
    LET t == Called(st, "audio_features", ev.lat)
    IN  CASE ev.outcome = "ok" ->
               [t EXCEPT !.avg_features = ev.dims, !.retry = 0, !.pc = "finish"]
          [] ev.outcome = "spotify_error" ->
               IF st.retry = 1
               THEN [t EXCEPT !.avg_features = {}, !.retry = 0, !.pc = "finish"]
               ELSE [t EXCEPT !.retry = 1]
          [] OTHER -> [t EXCEPT !.pc = "raised",
                                !.result = [kind |-> "raise", exception |-> "ConnectionError"]]

\* One attempt of the single batch of get_track_audio_features; ev.dims are
\* the dimensions some track of the answer reports a value for.
AudioFeaturesCall(st, ev) ==
    LET t == Called(st, "audio_features", ev.lat)
    IN  CASE ev.outcome = "ok" ->
               [t EXCEPT !.avg_features = ev.dims, !.retry = 0, !.pc = "finish"]
          [] ev.outcome = "spotify_error" ->
               IF st.retry = 1
               THEN [t EXCEPT !.avg_features = {}, !.retry = 0, !.pc = "finish"]
               ELSE [t EXCEPT !.retry = 1]
          [] OTHER -> [t EXCEPT !.avg_features = {}, !.retry = 0, !.pc = "finish"]

\* The exclusion list of the profile: the fetched ids, or the analysed
\* tracks when no id was fetched.
ExclusionList(liked_song_ids_for_exclusion, all_tracks) ==
    IF liked_song_ids_for_exclusion = <<>>
    THEN IdsOf(SelectSeq(all_tracks, HasId))
    ELSE liked_song_ids_for_exclusion

\* The profile analyze_taste returns.
Finish(st) ==
    [st EXCEPT !.pc = "done",
               !.result = [ kind |-> "profile",
                            track_count |-> Len(st.all_tracks),
                            unique_artists |-> Len(st.artist_ids),
                            top_genres |-> st.top_genres,
                            top_artist_ids |-> st.top_artist_ids,
                            avg_audio_features |-> st.avg_features,
                            genre_seeds |-> CounterKeys(Take(st.top_genres, GenreSeeds)),
                            liked_track_ids |->
                                ExclusionList(st.liked_song_ids_for_exclusion,
                                              st.all_tracks) ]]

(***************************************************************************)
(* RecommendationEngine.score_track.  A score is a whole number of         *)
(* 1/Scale points, which holds rating / 100 * 5, (discovery - 50) / 50 *   *)
(* 10 and score * 0.85 without rounding.                                   *)
(***************************************************************************)
Scale == 1000 * 100
Points(n) == n * Scale

\* str.lower() over the genre and tag names of the model.
Lower(g) ==
    CASE g = "Rock" -> "rock"
      [] g = "Jazz" -> "jazz"
      [] g = "Chill" -> "chill"
      [] OTHER -> g
LowerAll(gs) == [i \in 1..Len(gs) |-> Lower(gs[i])]

\* sum(1 for g in gs if g in targets)
Matches(gs, targets) == Len(SelectSeq(gs, LAMBDA g : g \in Range(targets)))

MOOD_TAG_MAPPING ==
    [ chill |-> {"chill", "relaxed", "calm", "mellow", "ambient", "peaceful", "soft"},
      energetic |-> {"energetic", "upbeat", "party", "dance", "hype", "intense", "fast"},
      sad |-> {"melancholic", "sad", "depressing", "emotional", "dark", "somber"},
      happy |-> {"happy", "cheerful", "positive", "uplifting", "feel-good", "joyful"} ]

\* Factor 3: popularity, the sweet spot is 40..80.
PopularityScore(popularity) ==
    IF popularity >= 40 /\ popularity <= 80 THEN 10
    ELSE IF popularity > 80 THEN 7
    ELSE IF popularity >= 20 THEN 5
    ELSE 2

\* Variant: a track outside the preferred era is not penalised.
EraScoreNoPenalty(release_date, era_preference, current_year) ==
    IF release_date = <<>> THEN 0
    ELSE LET year == release_date[1]
         IN  IF era_preference # "" /\ era_preference # "any"
             THEN IF \/ era_preference = "2020s" /\ year >= 2020
                     \/ era_preference = "2010s" /\ 2010 <= year /\ year < 2020
                     \/ era_preference = "2000s" /\ 2000 <= year /\ year < 2010
                     \/ era_preference = "90s" /\ 1990 <= year /\ year < 2000
                     \/ era_preference = "80s" /\ year < 1990
                  THEN 30
                  ELSE 0
             ELSE IF year >= current_year - 1 THEN 5
                  ELSE IF year >= current_year - 3 THEN 3
                  ELSE 0

\* Factor 8: the release date is <<>> when the album has none, else
\* <<year>>, <<year, month>> or <<year, month, day>>; int(release_date[:4])
\* is its first part.
EraScore(release_date, era_preference, current_year) ==
    IF release_date = <<>> THEN 0
    ELSE LET year == release_date[1]
         IN  IF era_preference # "" /\ era_preference # "any"
             THEN IF \/ era_preference = "2020s" /\ year >= 2020
                     \/ era_preference = "2010s" /\ 2010 <= year /\ year < 2020
                     \/ era_preference = "2000s" /\ 2000 <= year /\ year < 2010
                     \/ era_preference = "90s" /\ 1990 <= year /\ year < 2000
                     \/ era_preference = "80s" /\ year < 1990
                  THEN 30
                  ELSE -20
             ELSE IF year >= current_year - 1 THEN 5
                  ELSE IF year >= current_year - 3 THEN 3
                  ELSE 0

\* Factors 4 to 7 for the enrichment entry of the primary artist; mb_rating
\* is in tenths of a rating point.
MusicBrainzScore(mb_data, target_genres_lower, mood_preference) ==
    LET mb_genres == LowerAll(mb_data.mb_genres)
        mb_genre_matches == Matches(mb_genres, target_genres_lower)
        mb_tags == LowerAll(mb_data.mb_tags)
        mood_known == mood_preference \in DOMAIN MOOD_TAG_MAPPING
    IN  (IF mb_genre_matches > 0 THEN Points(Min(20, mb_genre_matches * 5)) ELSE 0)
        + (IF mb_tags # <<>>
           THEN Points(Min(15, Len(Take(mb_tags, 5)) * 3))
                + (IF mood_known /\ MOOD_TAG_MAPPING[mood_preference] \cap Range(mb_tags) # {}
                   THEN Points(10) ELSE 0)
           ELSE 0)
        + (IF mb_data.mb_rating > 0 THEN (mb_data.mb_rating * Points(5)) \div 1000 ELSE 0)

\* Factor 10: the discovery slider.
DiscoveryScore(discovery_level, is_users_artist) ==
    IF discovery_level > 50 /\ ~is_users_artist
    THEN ((discovery_level - 50) * Points(10)) \div 50
    ELSE IF discovery_level < 50 /\ is_users_artist
         THEN ((50 - discovery_level) * Points(10)) \div 50
         ELSE 0

\* score_track(track, target_genres, user_artist_ids, mb_enrichment,
\* seen_albums, preferences); env holds what the call reads besides its
\* arguments: the answer of sp.artist, MUSICBRAINZ_AVAILABLE, the current
\* year and the draw of random.uniform(-5, 5).
ScoreTrack(track, target_genres, user_artist_ids, mb_enrichment, seen_albums, preferences, env) ==
    LET track_artist_ids == SelectSeq(track.artists, LAMBDA a : a # NoId)
        is_users_artist ==
            \E i \in 1..Len(track_artist_ids) : track_artist_ids[i] \in Range(user_artist_ids)
        looked_up == track_artist_ids # <<>> /\ env.artist_info.outcome = "ok"
        target_genres_lower == LowerAll(target_genres)
        genre_matches ==
            IF looked_up
            THEN Matches(LowerAll(env.artist_info.genres), target_genres_lower)
            ELSE 0
        mb_used ==
            /\ env.MUSICBRAINZ_AVAILABLE
            /\ DOMAIN mb_enrichment # {}
            /\ track_artist_ids # <<>>
            /\ track_artist_ids[1] \in DOMAIN mb_enrichment
        mb_data == mb_enrichment[track_artist_ids[1]]
        \* target_genres_lower is bound only when sp.artist answered
        unbound == mb_used /\ mb_data.mb_genres # <<>> /\ ~looked_up
        before_diversity ==
            Points(IF is_users_artist THEN 40 ELSE 25)
            + (IF genre_matches > 0 THEN Points(Min(25, genre_matches * 8)) ELSE 0)
            + Points(PopularityScore(track.popularity))
            + (IF mb_used
               THEN MusicBrainzScore(mb_data, target_genres_lower, preferences.mood)
               ELSE 0)
            + Points(EraScore(track.album.release_date, preferences.era, env.current_year))
        repeated ==
            /\ seen_albums.given
            /\ track.album.id # NoId
            /\ track.album.id \in seen_albums.albums
        after_diversity ==
            IF repeated THEN (before_diversity * 85) \div 100 ELSE before_diversity
    IN  IF unbound
        THEN [kind |-> "raise", exception |-> "NameError"]
        ELSE [kind |-> "score",
              score |-> after_diversity
                        + DiscoveryScore(preferences.discovery, is_users_artist)
                        + env.randomization_bonus]

(***************************************************************************)
(* RecommendationEngine.generate_recommendations, one step per API call.   *)
(* A catalogue C names what the API holds: C.top_tracks[a], C.albums[a],   *)
(* C.album_tracks[b], C.related[a], C.search[g], C.genres[a], C.mb[a];     *)
(* an event says whether the call succeeded.                               *)
(***************************************************************************)
\* A track as artist_top_tracks serves it.
Song(id, artist) ==
    [ id |-> id,
      artists |-> <<artist>>,
      popularity |-> 10 + 20 * (id % 5),
      album |-> [id |-> IF id % 3 = 0 THEN NoId ELSE 1000 + artist,
                 release_date |-> IF id % 2 = 0 THEN <<2021, 6, 1>> ELSE <<1995>>],
      uri |-> id ]

\* A track as album_tracks serves it: no album, no popularity.
AlbumSong(id, artist) ==
    [ id |-> id,
      artists |-> <<artist>>,
      popularity |-> 0,
      album |-> [id |-> NoId, release_date |-> <<>>],
      uri |-> id ]

Songs(ids, artist) == [i \in 1..Len(ids) |-> Song(ids[i], artist)]
AlbumSongs(ids, artist) == [i \in 1..Len(ids) |-> AlbumSong(ids[i], artist)]

Reverse(s) == [i \in 1..Len(s) |-> s[Len(s) + 1 - i]]

\* list(dict.fromkeys(s)): the distinct elements in first-seen order.
RECURSIVE Distinct(_)
Distinct(s) ==
    IF s = <<>> THEN <<>>
    ELSE LET d == Distinct(SubSeq(s, 1, Len(s) - 1))
         IN  IF s[Len(s)] \in Range(d) THEN d ELSE Append(d, s[Len(s)])

\* The draws of random.sample(s, k) considered: the first k as they stand,
\* the last k backwards.
Samples(s, k) == {Take(s, k), Take(Reverse(s), k)}

\* The draws of random.shuffle(s) considered: as it stands, backwards.
Shuffles(s) == {s, Reverse(s)}

EngineStart(analysis, limit, preferences, available) ==
    [ pc |-> "start",
      analysis |-> analysis,
      limit |-> limit,
      preferences |-> preferences,
      MUSICBRAINZ_AVAILABLE |-> available,
      user_liked_track_ids |-> {},
      user_genres |-> <<>>,
      top_artist_ids |-> <<>>,
      familiar_tracks_per_artist |-> 0,
      discovery_tracks_per_artist |-> 0,
      candidate_tracks |-> <<>>,
      collected |-> <<>>,
      scored_tracks |-> <<>>,
      artist_track_ids |-> {},
      excluded_count |-> 0,
      k |-> 0,
      tracks_from_this_artist |-> 0,
      album_id |-> NoId,
      related_artist_ids |-> <<>>,
      discovered_artists |-> <<>>,
      discovery_artists |-> <<>>,
      discovery_pool |-> {},
      mb_enrichment |-> <<>>,
      calls |-> [top_artists |-> 0, top_tracks |-> 0, albums |-> 0, album_tracks |-> 0,
                 related |-> 0, search |-> 0],
      result |-> NoResult ]

Recommendations(st, tracks) ==
    [st EXCEPT !.pc = "done", !.result = [kind |-> "tracks", tracks |-> tracks]]

\* The collection loop without the check against the liked tracks.
RECURSIVE CollectUnfiltered(_, _, _)
CollectUnfiltered(st, tracks, quota) ==
    IF tracks = <<>> \/ st.tracks_from_this_artist >= quota THEN st
    ELSE LET track == Head(tracks)
             track_id == track.id
         IN  IF track_id # NoId /\ track_id \notin st.artist_track_ids
             THEN CollectUnfiltered(
                      [st EXCEPT !.candidate_tracks = Append(@, track),
                                 !.artist_track_ids = @ \cup {track_id},
                                 !.tracks_from_this_artist = @ + 1],
                      Tail(tracks), quota)
             ELSE CollectUnfiltered(st, Tail(tracks), quota)

\* Variant: a track is added whether or not its id was collected before.
RECURSIVE CollectRepeats(_, _, _)
CollectRepeats(st, tracks, quota) ==
    IF tracks = <<>> \/ st.tracks_from_this_artist >= quota THEN st
    ELSE LET track == Head(tracks)
             track_id == track.id
         IN  IF track_id # NoId /\ track_id \in st.user_liked_track_ids
             THEN CollectRepeats([st EXCEPT !.excluded_count = @ + 1], Tail(tracks), quota)
             ELSE CollectRepeats([st EXCEPT !.candidate_tracks = Append(@, track),
                                            !.artist_track_ids = @ \cup {track_id},
                                            !.tracks_from_this_artist = @ + 1],
                                 Tail(tracks), quota)

\* The collection loop of the three sources: stop at the quota, skip a
\* liked track, add a track with an id not collected before.
RECURSIVE Collect(_, _, _)
Collect(st, tracks, quota) ==
    IF tracks = <<>> \/ st.tracks_from_this_artist >= quota THEN st
    ELSE LET track == Head(tracks)
             track_id == track.id
         IN  IF track_id # NoId /\ track_id \in st.user_liked_track_ids
             THEN Collect([st EXCEPT !.excluded_count = @ + 1], Tail(tracks), quota)
             ELSE IF track_id # NoId /\ track_id \notin st.artist_track_ids
                  THEN Collect([st EXCEPT !.candidate_tracks = Append(@, track),
                                          !.artist_track_ids = @ \cup {track_id},
                                          !.tracks_from_this_artist = @ + 1],
                               Tail(tracks), quota)
                  ELSE Collect(st, Tail(tracks), quota)

\* The start of generate_recommendations up to the first artist: the error
\* check, the working set of artists and the quotas.
GenerateStart(st, ev) ==
    IF st.analysis.kind = "error" THEN Recommendations(st, <<>>)
    ELSE
    LET analysis_artist_ids == Take(st.analysis.top_artist_ids, 5)
        user_genres == Take(CounterKeys(st.analysis.top_genres), 5)
        spotify_top_artists ==
            IF ev.outcome = "ok"
            THEN SelectSeq(Take(ev.top_artists, 10), LAMBDA a : a # NoId)
            ELSE <<>>
        top_artist_ids ==
            IF spotify_top_artists # <<>>
            THEN IF Len(spotify_top_artists) > 5 THEN ev.sample ELSE spotify_top_artists
            ELSE analysis_artist_ids
        discovery_level == st.preferences.discovery
        t == [st EXCEPT !.calls.top_artists = @ + 1,
                        !.user_liked_track_ids = Range(st.analysis.liked_track_ids),
                        !.user_genres = user_genres,
                        !.top_artist_ids = top_artist_ids,
                        !.familiar_tracks_per_artist =
                            IF discovery_level < 30 THEN 8
                            ELSE IF discovery_level > 70 THEN 3 ELSE 5,
                        !.discovery_tracks_per_artist =
                            IF discovery_level < 30 THEN 2
                            ELSE IF discovery_level > 70 THEN 7 ELSE 5]
    IN  IF top_artist_ids = <<>> THEN Recommendations(t, <<>>)
        ELSE [t EXCEPT !.k = 1, !.tracks_from_this_artist = 0, !.pc = "top_tracks"]

\* After PART A and PART B: no candidate, no recommendation.
AfterCollection(st) ==
    IF st.candidate_tracks = <<>> THEN Recommendations(st, <<>>)
    ELSE [st EXCEPT !.pc = "shuffle"]

\* Variant: discovery from 20% on.
AfterFamiliarFromTwenty(st) ==
    IF st.preferences.discovery >= 20
    THEN [st EXCEPT !.k = 1, !.related_artist_ids = <<>>, !.pc = "related"]
    ELSE AfterCollection(st)

\* After PART A: discovery only above 20%.
AfterFamiliar(st) ==
    IF st.preferences.discovery > 20
    THEN [st EXCEPT !.k = 1, !.related_artist_ids = <<>>, !.pc = "related"]
    ELSE AfterCollection(st)

NextFamiliarArtist(st) ==
    IF st.k < Len(st.top_artist_ids)
    THEN [st EXCEPT !.k = @ + 1, !.tracks_from_this_artist = 0, !.pc = "top_tracks"]
    ELSE AfterFamiliar(st)

\* Source 1: the top tracks of a favourite artist.
FamiliarTopTracks(st, C, ev) ==
    LET artist_id == st.top_artist_ids[st.k]
        top_tracks == IF ev.outcome = "ok"
                      THEN Take(Songs(C.top_tracks[artist_id], artist_id), 5)
                      ELSE <<>>
        t == Collect([st EXCEPT !.calls.top_tracks = @ + 1, !.tracks_from_this_artist = 0],
                     top_tracks, st.familiar_tracks_per_artist)
    IN  IF t.tracks_from_this_artist < t.familiar_tracks_per_artist
        THEN [t EXCEPT !.pc = "albums"]
        ELSE NextFamiliarArtist(t)

\* Source 2: get_artist_recent_albums(artist_id, limit=1).
FamiliarAlbums(st, C, ev) ==
    LET artist_id == st.top_artist_ids[st.k]
        recent_albums == IF ev.outcome = "ok" THEN Take(C.albums[artist_id], 1) ELSE <<>>
        t == [st EXCEPT !.calls.albums = @ + 1]
    IN  IF recent_albums # <<>> /\ recent_albums[1] # NoId
        THEN [t EXCEPT !.album_id = recent_albums[1], !.pc = "album_tracks"]
        ELSE NextFamiliarArtist(t)

\* Source 2: get_album_tracks(album_id, limit=3).
FamiliarAlbumTracks(st, C, ev) ==
    LET artist_id == st.top_artist_ids[st.k]
        album_tracks == IF ev.outcome = "ok"
                        THEN Take(AlbumSongs(C.album_tracks[st.album_id], artist_id), 3)
                        ELSE <<>>
        t == Collect([st EXCEPT !.calls.album_tracks = @ + 1],
                     album_tracks, st.familiar_tracks_per_artist)
    IN  NextFamiliarArtist(t)

\* The loop of discover_artists_by_genre over one answer of sp.search: an
\* artist not seen is added; the search ends once limit artists are found.
RECURSIVE AddDiscovered(_, _, _, _)
AddDiscovered(discovered, seen_ids, artists, limit) ==
    IF artists = <<>> \/ Len(discovered) >= limit THEN discovered
    ELSE LET artist_id == Head(artists)
         IN  IF artist_id # NoId /\ artist_id \notin seen_ids
                   /\ artist_id \notin Range(discovered)
             THEN AddDiscovered(Append(discovered, artist_id), seen_ids, Tail(artists), limit)
             ELSE AddDiscovered(discovered, seen_ids, Tail(artists), limit)

\* The discovery artists are known: on to their order.
DiscoveryFound(st, related_artist_ids) ==
    [st EXCEPT !.related_artist_ids = related_artist_ids, !.pc = "discovery_order"]

\* get_related_artists(artist_id, limit=2) for one of the first 3 artists;
\* with fewer than 5 related artists the genre search follows.
RelatedArtists(st, C, ev) ==
    LET artist_id == st.top_artist_ids[st.k]
        related == IF ev.outcome = "ok"
                   THEN SelectSeq(Take(C.related[artist_id], 2), LAMBDA a : a # NoId)
                   ELSE <<>>
        t == [st EXCEPT !.calls.related = @ + 1, !.related_artist_ids = @ \o related]
    IN  IF st.k < Min(3, Len(st.top_artist_ids))
        THEN [t EXCEPT !.k = @ + 1]
        ELSE IF Len(t.related_artist_ids) < 5
             THEN IF Take(t.user_genres, 3) = <<>>
                  THEN DiscoveryFound(t, t.related_artist_ids)
                  ELSE [t EXCEPT !.k = 1, !.discovered_artists = <<>>, !.pc = "genre_search"]
             ELSE DiscoveryFound(t, t.related_artist_ids)

\* One sp.search of discover_artists_by_genre(user_genres, top_artist_ids,
\* limit=10), over the first 3 genres.
GenreSearch(st, C, ev) ==
    LET genre == st.user_genres[st.k]
        artists == IF ev.outcome = "ok" THEN Take(C.search[genre], 10) ELSE <<>>
        discovered == AddDiscovered(st.discovered_artists, Range(st.top_artist_ids),
                                    artists, 10)
        t == [st EXCEPT !.calls.search = @ + 1, !.discovered_artists = discovered]
    IN  IF Len(discovered) < 10 /\ st.k < Len(Take(st.user_genres, 3))
        THEN [t EXCEPT !.k = @ + 1]
        ELSE DiscoveryFound(t, t.related_artist_ids \o discovered)

\* list(set(related_artist_ids)), random.shuffle and the first 5.
DiscoveryOrder(st, shuffled) ==
    LET discovery == Take(shuffled, 5)
        t == [st EXCEPT !.related_artist_ids = shuffled, !.discovery_artists = discovery]
    IN  IF discovery = <<>> THEN AfterCollection(t)
        ELSE [t EXCEPT !.k = 1, !.pc = "discovery_tracks"]

\* Variant: the discovery pool is not checked against the liked tracks.
DiscoveryTopTracksUnfiltered(st, C, ev) ==
    LET artist_id == st.discovery_artists[st.k]
        discovery_tracks == IF ev.outcome = "ok"
                            THEN Take(Songs(C.top_tracks[artist_id], artist_id), 5)
                            ELSE <<>>
        t == CollectUnfiltered([st EXCEPT !.calls.top_tracks = @ + 1,
                                          !.tracks_from_this_artist = 0],
                               discovery_tracks, st.discovery_tracks_per_artist)
        u == [t EXCEPT !.discovery_pool =
                  @ \cup (t.artist_track_ids \ st.artist_track_ids)]
    IN  IF st.k < Len(st.discovery_artists) THEN [u EXCEPT !.k = @ + 1]
        ELSE AfterCollection(u)

\* The top tracks of one discovery artist.
DiscoveryTopTracks(st, C, ev) ==
    LET artist_id == st.discovery_artists[st.k]
        discovery_tracks == IF ev.outcome = "ok"
                            THEN Take(Songs(C.top_tracks[artist_id], artist_id), 5)
                            ELSE <<>>
        t == Collect([st EXCEPT !.calls.top_tracks = @ + 1, !.tracks_from_this_artist = 0],
                     discovery_tracks, st.discovery_tracks_per_artist)
        u == [t EXCEPT !.discovery_pool =
                  @ \cup (t.artist_track_ids \ st.artist_track_ids)]
    IN  IF st.k < Len(st.discovery_artists) THEN [u EXCEPT !.k = @ + 1]
        ELSE AfterCollection(u)

\* The artists of the candidates, whom batch_enrich_artists is asked about.
RECURSIVE CandidateArtists(_)
CandidateArtists(tracks) ==
    IF tracks = <<>> THEN {}
    ELSE (Range(Head(tracks).artists) \ {NoId}) \cup CandidateArtists(Tail(tracks))

\* random.shuffle(candidate_tracks) and Step 2.5: the enrichment of the
\* candidates' artists, {} when MusicBrainz is not available or fails.
ShuffleAndEnrich(st, C, shuffled, ev) ==
    [st EXCEPT !.candidate_tracks = shuffled,
               !.collected = st.candidate_tracks,
               !.mb_enrichment =
                   IF st.MUSICBRAINZ_AVAILABLE /\ ev.outcome = "ok"
                   THEN [a \in CandidateArtists(shuffled) |-> C.mb[a]]
                   ELSE <<>>,
               !.pc = "score"]

\* The scoring loop: draws[i] is what score_track reads for the i-th
\* candidate; a result that is no score is the exception that ends the loop.
RECURSIVE ScoreAll(_, _, _, _, _)
ScoreAll(st, C, draws, scored_tracks, seen_albums) ==
    LET i == Len(scored_tracks) + 1
    IN  IF i > Len(st.candidate_tracks) THEN [kind |-> "scored", scored_tracks |-> scored_tracks]
        ELSE LET track == st.candidate_tracks[i]
                 artist_info ==
                     IF draws[i].outcome = "ok" /\ track.artists # <<>>
                     THEN [outcome |-> "ok", genres |-> C.genres[track.artists[1]]]
                     ELSE [outcome |-> "error", genres |-> <<>>]
                 score == ScoreTrack(track, st.user_genres, st.top_artist_ids,
                                     st.mb_enrichment,
                                     [given |-> TRUE, albums |-> seen_albums],
                                     st.preferences,
                                     [artist_info |-> artist_info,
                                      MUSICBRAINZ_AVAILABLE |-> st.MUSICBRAINZ_AVAILABLE,
                                      current_year |-> C.current_year,
                                      randomization_bonus |-> draws[i].jitter])
             IN  IF score.kind # "score" THEN score
                 ELSE ScoreAll(st, C, draws, Append(scored_tracks, <<track, score.score>>),
                               IF track.album.id # NoId
                               THEN seen_albums \cup {track.album.id} ELSE seen_albums)

\* Variant: the first limit tracks as scored, without the sort.
ScoreAndRankUnsorted(st, C, draws) ==
    LET scored == ScoreAll(st, C, draws, <<>>, {})
    IN  IF scored.kind # "scored"
        THEN [st EXCEPT !.pc = "raised", !.result = scored]
        ELSE Recommendations([st EXCEPT !.scored_tracks = scored.scored_tracks],
                             CounterKeys(Take(scored.scored_tracks, st.limit)))

\* Step 3 and Step 4: score, sort by descending score, return the first
\* limit tracks.
ScoreAndRank(st, C, draws) ==
    LET scored == ScoreAll(st, C, draws, <<>>, {})
    IN  IF scored.kind # "scored"
        THEN [st EXCEPT !.pc = "raised", !.result = scored]
        ELSE Recommendations([st EXCEPT !.scored_tracks = scored.scored_tracks],
                             CounterKeys(Take(SortedDesc(scored.scored_tracks),
                                              st.limit)))

(***************************************************************************)
(* Playlists: RecommendationEngine.create_recommendation_playlist and the  *)
(* liked-songs mirror, create_playlist_job and save_liked.  A URI is a     *)
(* natural number, 0 standing for a track without 'uri'.                   *)
(***************************************************************************)
NoUri == 0
ExpectedUser == 1

PlaylistStart(fn, recommendations, lib) ==
    [ fn |-> fn,
      pc |-> IF fn = "create_recommendation_playlist" THEN "create" ELSE "current_user",
      recommendations |-> recommendations,
      lib |-> lib,
      uris |-> <<>>,
      i |-> 0,
      seen |-> {},
      offset |-> 0,
      playlist |-> <<>>,
      calls |-> <<>>,
      answers |-> <<>>,
      actual_user_id |-> NoId,
      created |-> <<>>,
      account |-> <<>>,
      earlier |-> <<>>,
      job |-> [status |-> IF fn = "create_playlist_job" THEN "working" ELSE "none",
               progress |-> 0, total |-> 0],
      result |-> NoResult ]

\* Variant: the batch runs to the end of the list.
BatchToEnd(track_uris, i) == SubSeq(track_uris, i + 1, Len(track_uris))

\* track_uris[i:i+100]
Batch(track_uris, i) == SubSeq(track_uris, i + 1, Min(i + AddBatch, Len(track_uris)))

\* An exception of create_recommendation_playlist: only SpotifyException
\* is caught.
RecommendationPlaylistFail(st, outcome) ==
    IF outcome = "spotify_error"
    THEN [st EXCEPT !.pc = "done", !.result = [kind |-> "error"]]
    ELSE [st EXCEPT !.pc = "raised",
                    !.result = [kind |-> "raise", exception |-> "ConnectionError"]]

RecommendationPlaylistSuccess(st, track_uris) ==
    [st EXCEPT !.pc = "done",
               !.result = [kind |-> "success", track_count |-> Len(track_uris)]]

\* create_recommendation_playlist up to the first batch: the empty-list
\* check, user_playlist_create and the list of URIs.
CreateRecommendationPlaylist(st, ev) ==
    IF st.recommendations = <<>>
    THEN [st EXCEPT !.pc = "done", !.result = [kind |-> "error"]]
    ELSE IF ev.outcome # "ok"
         THEN RecommendationPlaylistFail(st, ev.outcome)
         ELSE LET track_uris == SelectSeq(st.recommendations, LAMBDA u : u # NoUri)
                  t == [st EXCEPT !.uris = track_uris, !.i = 0,
                                  !.account = Append(@, <<>>)]
              IN  IF track_uris = <<>>
                  THEN RecommendationPlaylistSuccess(t, track_uris)
                  ELSE [t EXCEPT !.pc = "add"]

\* Variant: a failed batch is passed over and the loop goes on.
PlaylistAddItemsSkipFailed(st, ev) ==
    LET batch == Batch(st.uris, st.i)
        t == [st EXCEPT !.calls = Append(@, Len(batch)), !.i = @ + AddBatch,
                        !.answers = Append(@, ev.outcome),
                        !.playlist = IF ev.outcome = "ok" THEN @ \o batch ELSE @]
    IN  IF t.i < Len(t.uris) THEN t
        ELSE RecommendationPlaylistSuccess(t, t.uris)

\* One turn of the batch loop of create_recommendation_playlist.
PlaylistAddItems(st, ev) ==
    LET batch == Batch(st.uris, st.i)
        t == [st EXCEPT !.calls = Append(@, Len(batch)), !.answers = Append(@, ev.outcome)]
    IN  IF ev.outcome # "ok"
        THEN RecommendationPlaylistFail(t, ev.outcome)
        ELSE LET u == [t EXCEPT !.playlist = @ \o batch, !.i = @ + AddBatch,
                                !.account[Len(st.account)] = @ \o batch]
             IN  IF u.i < Len(u.uris) THEN u
                 ELSE RecommendationPlaylistSuccess(u, u.uris)

\* The same request once more: create_recommendation_playlist is called
\* again with the same user, name and tracks; account holds the playlists
\* of that name in the user's account, earlier the results so far.
CreateRecommendationPlaylistAgain(st) ==
    [PlaylistStart(st.fn, st.recommendations, st.lib) EXCEPT
        !.account = st.account,
        !.earlier = Append(st.earlier, st.result)]

\* The URI of the saved item at a position: the item at lib.repeat carries
\* the URI of the item before it.
SavedUri(lib, p) == IF p = lib.repeat THEN p - 1 ELSE p

\* sp.current_user_saved_tracks(limit, offset) as the mirror reads it.
SavedUris(lib, limit, offset) ==
    LET n == Max(0, Min(limit, lib.size - offset))
    IN  [k \in 1..n |-> SavedUri(lib, offset + k)]

\* Variant: every URI of a page is kept.
NewUrisKeepAll(seen, items) == items

\* The URIs of a page that were not seen before, each once.
RECURSIVE NewUris(_, _)
NewUris(seen, items) ==
    IF items = <<>> THEN <<>>
    ELSE IF Head(items) \in seen THEN NewUris(seen, Tail(items))
         ELSE <<Head(items)>> \o NewUris(seen \cup {Head(items)}, Tail(items))

\* Variant: the last URI of a chunk is left out.
ChunkButLast(uris, i) == SubSeq(uris, i + 1, Min(i + MirrorChunk, Len(uris)) - 1)

\* uris[i:i+100]
Chunk(uris, i) == SubSeq(uris, i + 1, Min(i + MirrorChunk, Len(uris)))

\* An exception in the mirror: create_playlist_job records it in the job,
\* save_liked lets it escape.
MirrorFail(st, exception) ==
    IF st.fn = "create_playlist_job"
    THEN [st EXCEPT !.pc = "done", !.job.status = "error",
                    !.result = [kind |-> "job_error", exception |-> exception]]
    ELSE [st EXCEPT !.pc = "raised",
                    !.result = [kind |-> "raise", exception |-> exception]]

\* Variant: the user of the token is not compared with expected_user_id.
MirrorCurrentUserUnchecked(st, ev) ==
    IF ev.outcome # "ok" THEN MirrorFail(st, ev.outcome)
    ELSE [st EXCEPT !.actual_user_id = ev.user, !.pc = "create"]

\* sp.current_user() and, in create_playlist_job, the check of the user.
MirrorCurrentUser(st, ev) ==
    IF ev.outcome # "ok" THEN MirrorFail(st, ev.outcome)
    ELSE LET t == [st EXCEPT !.actual_user_id = ev.user]
         IN  IF st.fn = "create_playlist_job" /\ ev.user # ExpectedUser
             THEN MirrorFail(t, "ValueError")
             ELSE [t EXCEPT !.pc = "create"]

\* sp.user_playlist_create(actual_user_id, ...); created lists the accounts
\* the call was made for.
MirrorCreatePlaylist(st, ev) ==
    LET t == [st EXCEPT !.created = Append(@, st.actual_user_id)]
    IN  IF ev.outcome # "ok" THEN MirrorFail(t, ev.outcome)
        ELSE [t EXCEPT !.pc = "fetch", !.offset = 0, !.seen = {},
                       !.job.total = 0, !.job.progress = 0]

\* One page of the library: the end of the mirror when it is empty.
MirrorFetchPage(st, ev) ==
    IF ev.outcome # "ok" THEN MirrorFail(st, ev.outcome)
    ELSE LET items == SavedUris(st.lib, MirrorPage, st.offset)
             uris == NewUris(st.seen, items)
         IN  IF items = <<>>
             THEN [st EXCEPT !.pc = "done",
                             !.job.total = st.job.progress,
                             !.job.status = IF st.fn = "create_playlist_job"
                                            THEN "done" ELSE "none",
                             !.result = [kind |-> "mirrored"]]
             ELSE IF uris = <<>>
                  THEN [st EXCEPT !.offset = @ + MirrorPage]
                  ELSE [st EXCEPT !.seen = @ \cup Range(uris), !.uris = uris,
                                  !.i = 0, !.pc = "add"]

\* One turn of the chunk loop of the mirror.
MirrorAddTracks(st, ev) ==
    LET chunk == Chunk(st.uris, st.i)
        t == [st EXCEPT !.calls = Append(@, Len(chunk)), !.answers = Append(@, ev.outcome)]
    IN  IF ev.outcome # "ok" THEN MirrorFail(t, ev.outcome)
        ELSE LET u == [t EXCEPT !.playlist = @ \o chunk,
                                !.i = @ + MirrorChunk,
                                !.job.progress = IF st.fn = "create_playlist_job"
                                                 THEN @ + Len(chunk) ELSE @]
             IN  IF u.i < Len(u.uris) THEN u
                 ELSE [u EXCEPT !.offset = @ + MirrorPage, !.pc = "fetch"]

(***************************************************************************)
(* What the API may answer at each call site.  A choice record P names the *)
(* latencies, random offsets, playlist items and audio answers drawn from. *)
(***************************************************************************)
LibrariesOf(sizes) ==
    {lib \in [size : sizes, local : {0, 2}] : lib.local <= lib.size}
AudioDims == {"danceability", "energy", "valence", "acousticness",
              "instrumentalness", "speechiness", "tempo"}
ApiOutcomes == {"ok", "spotify_error", "network_error"}

RECURSIVE SeqsUpTo(_, _)
SeqsUpTo(S, n) ==
    IF n = 0 THEN {<<>>}
    ELSE LET shorter == SeqsUpTo(S, n - 1)
         IN  shorter \cup {Append(s, x) : s \in {q \in shorter : Len(q) = n - 1}, x \in S}

\* Latency matters: few answers, calls that last 0 or MaxLatency seconds.
Timed ==
    [ lat |-> {0, MaxLatency},
      offsets |-> {0, LikedRandomOffsetMax},
      pool |-> {TrackOf(900), TrackOf(NoId)},
      dims |-> {{}, AudioDims} ]

\* Answers matter: instant calls, playlist pages that hold a liked track, a
\* track outside the library, an episode or removed track (no id).
Instant ==
    [ lat |-> {0},
      offsets |-> {0, 1, LikedRandomOffsetMax},
      pool |-> {TrackOf(1), TrackOf(900), TrackOf(NoId)},
      dims |-> {{}, {"energy"}, AudioDims} ]

ExclusionEvents(P) == [outcome : {"ok", "error"}, lat : P.lat]
LikedEvents(P) ==
    [random_offset : P.offsets, outcome : {"ok", "error"}, lat : P.lat,
     fb_outcome : {"ok", "error"}, fb_lat : P.lat]
PlaylistsEvents(P) ==
    [outcome : ApiOutcomes, n : 0..PlaylistFetchLimit, pid : {NoId, 1}, lat : P.lat]
\* A page holds at most the limit asked for; the playlist ends within
\* MaxPlaylistCalls calls.
PlaylistItemsEvents(P, room, made) ==
    [outcome : ApiOutcomes, items : SeqsUpTo(P.pool, Min(room, MaxPage)),
     next : IF made + 1 < MaxPlaylistCalls THEN BOOLEAN ELSE {FALSE}, lat : P.lat]
ArtistsEvents(P) == [outcome : ApiOutcomes, lat : P.lat]
AudioEvents(P) == [outcome : ApiOutcomes, dims : P.dims, lat : P.lat]

(***************************************************************************)
(* Specification Spec: one run of analyze_taste                            *)
(***************************************************************************)
Idle == [pc |-> "idle"]

ExclusionPage(P) ==
    /\ an.pc = "exclusion"
    /\ \E ev \in ExclusionEvents(P) : an' = GetLikedSongIdsPage(an, library, ev)
    /\ UNCHANGED <<library, an2, rec, sc, pl, mb>>

LikedFetch(P) ==
    /\ an.pc = "liked"
    /\ \E ev \in LikedEvents(P) : an' = LikedStage(an, library, ev)
    /\ UNCHANGED <<library, an2, rec, sc, pl, mb>>

PlaylistsGate ==
    /\ an.pc = "playlists"
    /\ an' = PlaylistGate(an)
    /\ UNCHANGED <<library, an2, rec, sc, pl, mb>>

GetUserPlaylists(P) ==
    /\ an.pc = "get_user_playlists"
    /\ \E ev \in PlaylistsEvents(P) : an' = UserPlaylistsCall(an, ev)
    /\ UNCHANGED <<library, an2, rec, sc, pl, mb>>

GetPlaylistTracks(P) ==
    /\ an.pc = "get_playlist_tracks"
    /\ \E ev \in PlaylistItemsEvents(P, PlaylistTracksLimit - Len(an.playlist_tracks),
                                     an.calls.playlist_items) :
            an' = PlaylistItemsCall(an, ev)
    /\ UNCHANGED <<library, an2, rec, sc, pl, mb>>

ValidateTracks ==
    /\ an.pc = "validate"
    /\ an' = Validate(an)
    /\ UNCHANGED <<library, an2, rec, sc, pl, mb>>

GenresGate ==
    /\ an.pc = "genre"
    /\ an' = GenreGate(an)
    /\ UNCHANGED <<library, an2, rec, sc, pl, mb>>

GetArtistGenres(P) ==
    /\ an.pc = "get_artist_genres"
    /\ \E ev \in ArtistsEvents(P) : an' = ArtistsCall(an, ev)
    /\ UNCHANGED <<library, an2, rec, sc, pl, mb>>

AudioFeaturesGate ==
    /\ an.pc = "audio"
    /\ an' = AudioGate(an)
    /\ UNCHANGED <<library, an2, rec, sc, pl, mb>>

GetTrackAudioFeatures(P) ==
    /\ an.pc = "get_track_audio_features"
    /\ \E ev \in AudioEvents(P) : an' = AudioFeaturesCall(an, ev)
    /\ UNCHANGED <<library, an2, rec, sc, pl, mb>>

ReturnProfile ==
    /\ an.pc = "finish"
    /\ an' = Finish(an)
    /\ UNCHANGED <<library, an2, rec, sc, pl, mb>>

Budgets == {15, 20}
AnalyzerArgs ==
    {AnalyzerStart(b, c[1], c[2], 3, 15) :
        b \in Budgets, c \in {<<FALSE, 0>>, <<TRUE, 0>>, <<TRUE, 1>>}}

Init ==
    /\ library \in [size : {0, MaxLib}, local : {0}]
    /\ an \in AnalyzerArgs
    /\ an2 = Idle
    /\ rec = Idle
    /\ sc = Idle
    /\ pl = Idle
    /\ mb = Idle

Next ==
    \/ ExclusionPage(Timed)
    \/ LikedFetch(Timed)
    \/ PlaylistsGate
    \/ GetUserPlaylists(Timed)
    \/ GetPlaylistTracks(Timed)
    \/ ValidateTracks
    \/ GenresGate
    \/ GetArtistGenres(Timed)
    \/ AudioFeaturesGate
    \/ GetTrackAudioFeatures(Timed)
    \/ ReturnProfile

Spec == Init /\ [][Next]_vars

(***************************************************************************)
(* Specification SpecCause: one run of analyze_taste whose liked-songs     *)
(* fetch may fail with a rate limit (429), a denied permission (403) or a  *)
(* network error.  an.liked_failure keeps what the API raised; the code    *)
(* never reads it.                                                         *)
(***************************************************************************)
LikedFailures == {"rate_limit", "permission_denied", "network_error"}

LikedCauseEvents(P) ==
    [random_offset : P.offsets, outcome : {"ok"} \cup LikedFailures, lat : P.lat,
     fb_outcome : {"ok"} \cup LikedFailures, fb_lat : P.lat]

\* What the API raised in get_liked_songs, "none" when both calls answered.
RaisedInLikedSongs(lib, limit, ev) ==
    IF ev.outcome # "ok" THEN ev.outcome
    ELSE IF GetLikedSongs(lib, limit, ev).calls = 2 /\ ev.fb_outcome # "ok"
         THEN ev.fb_outcome
         ELSE "none"

LikedFetchCause(P) ==
    /\ an.pc = "liked"
    /\ \E ev \in LikedCauseEvents(P) :
          an' = [LikedStage(an, library, ev) EXCEPT
                    !.liked_failure = RaisedInLikedSongs(library, an.liked_songs_limit, ev)]
    /\ UNCHANGED <<library, an2, rec, sc, pl, mb>>

InitCause ==
    /\ library \in [size : {0, 3}, local : {0}]
    /\ an \in AnalyzerArgs
    /\ an2 = Idle
    /\ rec = Idle
    /\ sc = Idle
    /\ pl = Idle
    /\ mb = Idle

NextCause ==
    \/ ExclusionPage(Timed)
    \/ LikedFetchCause(Timed)
    \/ PlaylistsGate
    \/ GetUserPlaylists(Timed)
    \/ GetPlaylistTracks(Timed)
    \/ ValidateTracks
    \/ GenresGate
    \/ GetArtistGenres(Timed)
    \/ AudioFeaturesGate
    \/ GetTrackAudioFeatures(Timed)
    \/ ReturnProfile

SpecCause == InitCause /\ [][NextCause]_vars

(***************************************************************************)
(* Specification SpecData: one run of analyze_taste with instant calls,    *)
(* larger libraries and playlists that repeat liked tracks                 *)
(***************************************************************************)
InitData ==
    /\ library \in LibrariesOf({0, 1, 16, 51, MaxBigLib})
    /\ an \in {AnalyzerStart(20, c[1], c[2], 3, 15) : c \in {<<FALSE, 0>>, <<TRUE, 1>>}}
    /\ an2 = Idle
    /\ rec = Idle
    /\ sc = Idle
    /\ pl = Idle
    /\ mb = Idle

NextData ==
    \/ ExclusionPage(Instant)
    \/ LikedFetch(Instant)
    \/ PlaylistsGate
    \/ GetUserPlaylists(Instant)
    \/ GetPlaylistTracks(Instant)
    \/ ValidateTracks
    \/ GenresGate
    \/ GetArtistGenres(Instant)
    \/ AudioFeaturesGate
    \/ GetTrackAudioFeatures(Instant)
    \/ ReturnProfile

SpecData == InitData /\ [][NextData]_vars

(***************************************************************************)
(* Specification SpecPair: two runs of analyze_taste that differ only in   *)
(* max_analysis_time and meet the same API.  The runs advance together     *)
(* while they are at the same place, so that the same call gets the same   *)
(* answer and latency in both; a run that is behind (it runs a stage the   *)
(* other skipped) advances alone.                                          *)
(***************************************************************************)
\* The place of a step in the text of analyze_taste.
Rank(pc) ==
    CASE pc = "exclusion" -> 1
      [] pc = "liked" -> 2
      [] pc = "playlists" -> 3
      [] pc = "get_user_playlists" -> 4
      [] pc = "get_playlist_tracks" -> 5
      [] pc = "validate" -> 6
      [] pc = "genre" -> 7
      [] pc = "get_artist_genres" -> 8
      [] pc = "audio" -> 9
      [] pc = "get_track_audio_features" -> 10
      [] pc = "finish" -> 11
      [] OTHER -> 12

NoEvent == [outcome |-> "none"]

\* The answers the API may give to the call a run is about to make.
AnalyzerEvents(P, st) ==
    CASE st.pc = "exclusion" -> ExclusionEvents(P)
      [] st.pc = "liked" -> LikedEvents(P)
      [] st.pc = "get_user_playlists" -> PlaylistsEvents(P)
      [] st.pc = "get_playlist_tracks" ->
            PlaylistItemsEvents(P, PlaylistTracksLimit - Len(st.playlist_tracks),
                                st.calls.playlist_items)
      [] st.pc = "get_artist_genres" -> ArtistsEvents(P)
      [] st.pc = "get_track_audio_features" -> AudioEvents(P)
      [] OTHER -> {NoEvent}

\* The next step of a run of analyze_taste, given the API's answer.
AnalyzerStep(st, lib, ev) ==
    CASE st.pc = "exclusion" -> GetLikedSongIdsPage(st, lib, ev)
      [] st.pc = "liked" -> LikedStage(st, lib, ev)
      [] st.pc = "playlists" -> PlaylistGate(st)
      [] st.pc = "get_user_playlists" -> UserPlaylistsCall(st, ev)
      [] st.pc = "get_playlist_tracks" -> PlaylistItemsCall(st, ev)
      [] st.pc = "validate" -> Validate(st)
      [] st.pc = "genre" -> GenreGate(st)
      [] st.pc = "get_artist_genres" -> ArtistsCall(st, ev)
      [] st.pc = "audio" -> AudioGate(st)
      [] st.pc = "get_track_audio_features" -> AudioFeaturesCall(st, ev)
      [] st.pc = "finish" -> Finish(st)
      [] OTHER -> st

PairBoth ==
    /\ an.pc = an2.pc
    /\ Rank(an.pc) < 12
    /\ \E ev \in AnalyzerEvents(Timed, an) :
          /\ an' = AnalyzerStep(an, library, ev)
          /\ an2' = AnalyzerStep(an2, library, ev)
    /\ UNCHANGED <<library, rec, sc, pl, mb>>

PairFirstAlone ==
    /\ Rank(an.pc) < Rank(an2.pc)
    /\ \E ev \in AnalyzerEvents(Timed, an) : an' = AnalyzerStep(an, library, ev)
    /\ UNCHANGED <<library, an2, rec, sc, pl, mb>>

PairSecondAlone ==
    /\ Rank(an2.pc) < Rank(an.pc)
    /\ \E ev \in AnalyzerEvents(Timed, an2) : an2' = AnalyzerStep(an2, library, ev)
    /\ UNCHANGED <<library, an, rec, sc, pl, mb>>

InitPair ==
    /\ library \in [size : {0, MaxLib}, local : {0}]
    /\ \E c \in {<<FALSE, 0>>, <<TRUE, 0>>, <<TRUE, 1>>} :
       \E b1, b2 \in Budgets :
          /\ b1 < b2
          /\ an = AnalyzerStart(b1, c[1], c[2], 3, 15)
          /\ an2 = AnalyzerStart(b2, c[1], c[2], 3, 15)
    /\ rec = Idle
    /\ sc = Idle
    /\ pl = Idle
    /\ mb = Idle

NextPair == PairBoth \/ PairFirstAlone \/ PairSecondAlone

SpecPair == InitPair /\ [][NextPair]_vars

(***************************************************************************)
(* Specification SpecRank: the validation step of analyze_taste over       *)
(* collected tracks whose credits make more artists than the ranking keeps *)
(* and make ties between them                                              *)
(***************************************************************************)
\* A first track crediting artists 1..k, then tracks crediting one artist.
RankTracks(k, extra) ==
    <<[id |-> 1, artists |-> [a \in 1..k |-> a]]>>
        \o [i \in 1..Len(extra) |-> [id |-> 1 + i, artists |-> <<extra[i]>>]]

RankInputs ==
    UNION {{RankTracks(k, extra) :
                extra \in SeqsUpTo({NoId, 1, k - 1, k, k + 1}, MaxExtraTracks)} :
            k \in {2, MaxArtists - 1, MaxArtists}}

\* analyze_taste at "Validate we have tracks", the tracks just collected.
AtValidate(tracks) ==
    [AnalyzerStart(20, FALSE, 0, 3, 15) EXCEPT
        !.pc = "validate",
        !.liked_tracks = tracks,
        !.all_tracks = tracks,
        !.gate.liked = 0,
        !.gate.playlists = 0,
        !.calls.exclusion = 1,
        !.calls.liked = 1]

InitRank ==
    /\ library = [size |-> 0, local |-> 0]
    /\ an \in {AtValidate(tracks) : tracks \in RankInputs}
    /\ an2 = Idle
    /\ rec = Idle
    /\ sc = Idle
    /\ pl = Idle
    /\ mb = Idle

NextRank == ValidateTracks

SpecRank == InitRank /\ [][NextRank]_vars

(***************************************************************************)
(* Specification SpecScore: one call of score_track, its arguments and     *)
(* what it reads drawn from small sets                                     *)
(***************************************************************************)
ScoredTracks ==
    [ id : {5},
      artists : {<<>>, <<1>>, <<5>>},
      popularity : {10, 60},
      album : [id : {NoId, 7},
               release_date : {<<>>, <<1995>>, <<2021, 6, 1>>, <<2025, 3>>}] ]

MbData ==
    { [mb_genres |-> <<"rock", "Jazz">>, mb_tags |-> <<"Chill", "indie">>, mb_rating |-> 45],
      [mb_genres |-> <<"rock", "Jazz", "pop", "indie">>,
       mb_tags |-> <<"Chill", "indie", "dark", "fast", "soft", "live">>, mb_rating |-> 1000],
      [mb_genres |-> <<>>, mb_tags |-> <<>>, mb_rating |-> 0] }

\* None, or an entry for artists 1 and 5.
MbEnrichments == {<<>>} \cup {[a \in {1, 5} |-> d] : d \in MbData}

\* None, the empty set, a set holding album 7.
SeenAlbums ==
    { [given |-> FALSE, albums |-> {}],
      [given |-> TRUE, albums |-> {}],
      [given |-> TRUE, albums |-> {7}] }

ScorePreferences == [era : {"", "any", "2020s", "90s"}, mood : {"", "chill"},
                     discovery : {0, 20, 50, 90, 100}]

ScoreEnvs ==
    [ artist_info : {[outcome |-> "error", genres |-> <<>>],
                     [outcome |-> "ok", genres |-> <<"rock", "pop">>],
                     [outcome |-> "ok", genres |-> <<"Rock", "pop", "indie", "jazz">>]},
      MUSICBRAINZ_AVAILABLE : BOOLEAN,
      current_year : {2026},
      randomization_bonus : {-Points(5), Points(5)} ]

ScoreArgs ==
    [ pc : {"args"},
      track : ScoredTracks,
      target_genres : {<<>>, <<"Rock", "jazz">>, <<"rock", "Jazz", "pop", "indie">>},
      user_artist_ids : {<<1, 2>>},
      mb_enrichment : MbEnrichments,
      seen_albums : SeenAlbums,
      preferences : ScorePreferences,
      env : ScoreEnvs,
      result : {NoResult} ]

ScoreTrackCall ==
    /\ sc.pc = "args"
    /\ sc' = [sc EXCEPT !.pc = "scored",
                        !.result = ScoreTrack(sc.track, sc.target_genres, sc.user_artist_ids,
                                              sc.mb_enrichment, sc.seen_albums,
                                              sc.preferences, sc.env)]
    /\ UNCHANGED <<library, an, an2, rec, pl, mb>>

InitScore ==
    /\ library = [size |-> 0, local |-> 0]
    /\ an = Idle
    /\ an2 = Idle
    /\ rec = Idle
    /\ sc \in ScoreArgs
    /\ pl = Idle
    /\ mb = Idle

NextScore == ScoreTrackCall

SpecScore == InitScore /\ [][NextScore]_vars

(***************************************************************************)
(* Specification SpecRec: one run of generate_recommendations over a       *)
(* given profile.  The catalogue offers liked tracks (ids 1 and 2) among   *)
(* the top tracks of favourite artists, in an album and among the top      *)
(* tracks of discovery artists; calls about C.flaky may fail.              *)
(***************************************************************************)
ArtistIds == 0..9

MbEntry(a) ==
    CASE a = 1 -> [mb_genres |-> <<"rock", "Jazz">>, mb_tags |-> <<"Chill", "indie">>,
                   mb_rating |-> 45]
      [] a = 7 -> [mb_genres |-> <<>>, mb_tags |-> <<"dark">>, mb_rating |-> 0]
      [] OTHER -> [mb_genres |-> <<>>, mb_tags |-> <<>>, mb_rating |-> 0]

Catalogue ==
    [ top_tracks |-> [a \in ArtistIds |->
          CASE a = 1 -> <<1, 900, NoId, 901>>
            [] a = 2 -> <<2, 900, 902>>
            [] a = 7 -> <<2, 903>>
            [] a = 8 -> <<904, 1>>
            [] OTHER -> <<910 + a>>],
      albums |-> [a \in ArtistIds |->
          CASE a = 1 -> <<11, 12>>
            [] a = 2 -> <<NoId>>
            [] OTHER -> <<>>],
      album_tracks |-> [b \in {11} |-> <<1, 905, 900, 906>>],
      related |-> [a \in ArtistIds |->
          CASE a = 1 -> <<7, 2, 8>>
            [] OTHER -> <<>>],
      search |-> [g \in {"rock", "jazz", "indie"} |->
          CASE g = "rock" -> <<1, 7, 8>>
            [] g = "jazz" -> <<8, NoId, 9>>
            [] OTHER -> <<>>],
      genres |-> [a \in ArtistIds |-> ArtistGenres(a)],
      mb |-> [a \in ArtistIds |-> MbEntry(a)],
      user_top_artists |-> {<<>>, <<1, NoId, 2>>, <<3, 1, 4, 5, 6, 2>>},
      flaky |-> {1, 7, 11},
      flaky_genres |-> {"rock"},
      current_year |-> 2026 ]

\* The outcomes of a call about an artist or an album, and about a genre.
OutcomesOf(C, key) == IF key \in C.flaky THEN {"ok", "error"} ELSE {"ok"}
SearchOutcomesOf(C, genre) == IF genre \in C.flaky_genres THEN {"ok", "error"} ELSE {"ok"}

\* What score_track reads for each of n candidates: the lookups all
\* succeed, all fail, or every other one fails.
ScoreDraws(n) ==
    { [i \in 1..n |-> [outcome |-> "ok", jitter |-> Points(5)]],
      [i \in 1..n |-> [outcome |-> "error", jitter |-> -Points(5)]],
      [i \in 1..n |-> IF i % 2 = 1 THEN [outcome |-> "ok", jitter |-> -Points(5)]
                                    ELSE [outcome |-> "error", jitter |-> Points(5)]] }

Generate(C) ==
    /\ rec.pc = "start"
    /\ \E outcome \in {"ok", "error"}, top_artists \in C.user_top_artists :
       \E sample \in Samples(SelectSeq(top_artists, LAMBDA a : a # NoId), 5) :
          rec' = GenerateStart(rec, [outcome |-> outcome, top_artists |-> top_artists,
                                     sample |-> sample])
    /\ UNCHANGED <<library, an, an2, sc, pl, mb>>

TopTracks(C) ==
    /\ rec.pc = "top_tracks"
    /\ \E outcome \in OutcomesOf(C, rec.top_artist_ids[rec.k]) :
          rec' = FamiliarTopTracks(rec, C, [outcome |-> outcome])
    /\ UNCHANGED <<library, an, an2, sc, pl, mb>>

RecentAlbums(C) ==
    /\ rec.pc = "albums"
    /\ \E outcome \in OutcomesOf(C, rec.top_artist_ids[rec.k]) :
          rec' = FamiliarAlbums(rec, C, [outcome |-> outcome])
    /\ UNCHANGED <<library, an, an2, sc, pl, mb>>

AlbumTracks(C) ==
    /\ rec.pc = "album_tracks"
    /\ \E outcome \in OutcomesOf(C, rec.album_id) :
          rec' = FamiliarAlbumTracks(rec, C, [outcome |-> outcome])
    /\ UNCHANGED <<library, an, an2, sc, pl, mb>>

Related(C) ==
    /\ rec.pc = "related"
    /\ \E outcome \in OutcomesOf(C, rec.top_artist_ids[rec.k]) :
          rec' = RelatedArtists(rec, C, [outcome |-> outcome])
    /\ UNCHANGED <<library, an, an2, sc, pl, mb>>

SearchGenre(C) ==
    /\ rec.pc = "genre_search"
    /\ \E outcome \in SearchOutcomesOf(C, rec.user_genres[rec.k]) :
          rec' = GenreSearch(rec, C, [outcome |-> outcome])
    /\ UNCHANGED <<library, an, an2, sc, pl, mb>>

OrderDiscovery ==
    /\ rec.pc = "discovery_order"
    /\ \E shuffled \in Shuffles(Distinct(rec.related_artist_ids)) :
          rec' = DiscoveryOrder(rec, shuffled)
    /\ UNCHANGED <<library, an, an2, sc, pl, mb>>

DiscoveryTracks(C) ==
    /\ rec.pc = "discovery_tracks"
    /\ \E outcome \in OutcomesOf(C, rec.discovery_artists[rec.k]) :
          rec' = DiscoveryTopTracks(rec, C, [outcome |-> outcome])
    /\ UNCHANGED <<library, an, an2, sc, pl, mb>>

Enrich(C) ==
    /\ rec.pc = "shuffle"
    /\ \E shuffled \in Shuffles(rec.candidate_tracks), outcome \in {"ok", "error"} :
          rec' = ShuffleAndEnrich(rec, C, shuffled, [outcome |-> outcome])
    /\ UNCHANGED <<library, an, an2, sc, pl, mb>>

ScoreCandidates(C) ==
    /\ rec.pc = "score"
    /\ \E draws \in ScoreDraws(Len(rec.candidate_tracks)) :
          rec' = ScoreAndRank(rec, C, draws)
    /\ UNCHANGED <<library, an, an2, sc, pl, mb>>

\* The results of analyze_taste handed to generate_recommendations.
Profiles ==
    { [kind |-> "error", track_count |-> 0],
      [kind |-> "profile", track_count |-> 2, unique_artists |-> 2,
       top_genres |-> <<<<"rock", 3>>, <<"jazz", 1>>>>, top_artist_ids |-> <<1, 2>>,
       avg_audio_features |-> {}, genre_seeds |-> <<"rock", "jazz">>,
       liked_track_ids |-> <<1, 2>>],
      [kind |-> "profile", track_count |-> 1, unique_artists |-> 1,
       top_genres |-> <<>>, top_artist_ids |-> <<2>>,
       avg_audio_features |-> {}, genre_seeds |-> <<>>,
       liked_track_ids |-> <<2, 900>>] }

EnginePreferences ==
    { [era |-> "", mood |-> "", discovery |-> 10],
      [era |-> "2020s", mood |-> "chill", discovery |-> 50],
      [era |-> "", mood |-> "", discovery |-> 90] }

InitRec ==
    /\ library = [size |-> 0, local |-> 0]
    /\ an = Idle
    /\ an2 = Idle
    /\ rec \in {EngineStart(a, l, p, m) :
                    a \in Profiles, l \in {2, 20}, p \in EnginePreferences, m \in BOOLEAN}
    /\ sc = Idle
    /\ pl = Idle
    /\ mb = Idle

NextRec ==
    \/ Generate(Catalogue)
    \/ TopTracks(Catalogue)
    \/ RecentAlbums(Catalogue)
    \/ AlbumTracks(Catalogue)
    \/ Related(Catalogue)
    \/ SearchGenre(Catalogue)
    \/ OrderDiscovery
    \/ DiscoveryTracks(Catalogue)
    \/ Enrich(Catalogue)
    \/ ScoreCandidates(Catalogue)

SpecRec == InitRec /\ [][NextRec]_vars

(***************************************************************************)
(* Specification SpecDiscovery: one run of generate_recommendations with   *)
(* the discovery slider at and around 20%.  Artists 1 and 2 are related to *)
(* each other, artist 2 has more top tracks than the familiar quota of a   *)
(* high discovery level, and artist 3 has five related artists.            *)
(***************************************************************************)
DiscoveryCatalogue ==
    [Catalogue EXCEPT !.top_tracks[2] = <<900, 902, 907, 908, 909>>,
                      !.related[1] = <<7, 2, 8>>,
                      !.related[2] = <<1, 8>>,
                      !.related[3] = <<4, 5>>,
                      !.user_top_artists = {<<>>, <<3, 1, 2>>}]

DiscoveryPreferences ==
    {[era |-> "", mood |-> "", discovery |-> d] : d \in {0, 20, 21, 90}}

InitDiscovery ==
    /\ library = [size |-> 0, local |-> 0]
    /\ an = Idle
    /\ an2 = Idle
    /\ rec \in {EngineStart(a, 20, p, FALSE) : a \in Profiles, p \in DiscoveryPreferences}
    /\ sc = Idle
    /\ pl = Idle
    /\ mb = Idle

NextDiscovery ==
    \/ Generate(DiscoveryCatalogue)
    \/ TopTracks(DiscoveryCatalogue)
    \/ RecentAlbums(DiscoveryCatalogue)
    \/ AlbumTracks(DiscoveryCatalogue)
    \/ Related(DiscoveryCatalogue)
    \/ SearchGenre(DiscoveryCatalogue)
    \/ OrderDiscovery
    \/ DiscoveryTracks(DiscoveryCatalogue)
    \/ Enrich(DiscoveryCatalogue)
    \/ ScoreCandidates(DiscoveryCatalogue)

SpecDiscovery == InitDiscovery /\ [][NextDiscovery]_vars

(***************************************************************************)
(* Specification SpecSlider: the endpoint reads 'discovery' from the JSON  *)
(* body of the request and score_track scores one candidate with it.  A    *)
(* JSON number is given in tenths; the key may be absent.                  *)
(***************************************************************************)
\* A key of the body: <<>> when absent, <<value>> when given.
Absent == <<>>
Given(values) == {<<v>> : v \in values}

\* int(x) of a number given in tenths: truncation towards zero.
IntOfTenths(t) == IF t >= 0 THEN t \div 10 ELSE -((-t) \div 10)

\* data.get(key, default)
GetOr(value, default) == IF value = Absent THEN default ELSE value[1]

\* The preferences dict of the endpoint generate_recommendations.
RequestPreferences(data) ==
    [ mood |-> GetOr(data.mood, "any"),
      era |-> GetOr(data.era, "any"),
      discovery |-> IntOfTenths(GetOr(data.discovery, 500)) ]

SliderBodies ==
    [ mood : {Absent} \cup Given({"chill"}),
      era : {Absent},
      discovery : {Absent} \cup Given({-500, -5, 0, 205, 500, 1000, 1009, 1010, 1500}) ]

SliderArgs ==
    [ pc : {"request"},
      data : SliderBodies,
      track : {t \in ScoredTracks : /\ t.artists # <<>> /\ t.popularity = 60
                                    /\ t.album = [id |-> 7, release_date |-> <<1995>>]},
      target_genres : {<<"Rock", "jazz">>},
      user_artist_ids : {<<1, 2>>},
      mb_enrichment : {<<>>},
      seen_albums : {[given |-> TRUE, albums |-> {}], [given |-> TRUE, albums |-> {7}]},
      preferences : {RequestPreferences([mood |-> Absent, era |-> Absent, discovery |-> Absent])},
      env : {e \in ScoreEnvs : e.artist_info.outcome = "ok" /\ ~e.MUSICBRAINZ_AVAILABLE},
      result : {NoResult} ]

ReadPreferences ==
    /\ sc.pc = "request"
    /\ sc' = [sc EXCEPT !.pc = "args", !.preferences = RequestPreferences(sc.data)]
    /\ UNCHANGED <<library, an, an2, rec, pl, mb>>

InitSlider ==
    /\ library = [size |-> 0, local |-> 0]
    /\ an = Idle
    /\ an2 = Idle
    /\ rec = Idle
    /\ sc \in SliderArgs
    /\ pl = Idle
    /\ mb = Idle

NextSlider == ReadPreferences \/ ScoreTrackCall

SpecSlider == InitSlider /\ [][NextSlider]_vars

(***************************************************************************)
(* Specification SpecSeed: the module-wide generator of 'random' in one    *)
(* worker process that serves two requests with identical inputs and API   *)
(* responses, each analyze_taste over n tracks with an id followed by      *)
(* generate_recommendations.  The generator starts seeded by the system    *)
(* (state unknown: a draw can yield any outcome); after random.seed(42)    *)
(* the outcome of a draw is fixed by how many draws were made since.       *)
(***************************************************************************)
AudioSampleSize == 15

Unseeded == [seeded |-> FALSE, pos |-> 0]

\* random.seed(42)
RandomSeed == [seeded |-> TRUE, pos |-> 0]

\* The outcome, 0 or 1, of the draw at a position after random.seed(42).
SeededOutcome(pos) == ((pos * pos + 42) \div 3) % 2

\* The outcomes a draw of the generator can have.
DrawOutcomes(rng) == IF rng.seeded THEN {SeededOutcome(rng.pos)} ELSE {0, 1}

\* The generator after a draw.
Drawn(rng) == IF rng.seeded THEN [rng EXCEPT !.pos = @ + 1] ELSE rng

\* random.sample(s, k) and random.shuffle(s) by the outcome of the draw.
SampleBy(s, k, outcome) == IF outcome = 0 THEN Take(s, k) ELSE Take(Reverse(s), k)

\* The draw sites of generate_recommendations in program order: the
\* artist sub-sample, the discovery shuffle, the candidate shuffle and the
\* jitter of score_track.
DrawSites == <<"sample_artists", "shuffle_discovery", "shuffle_candidates", "jitter">>

SeedStart(n) ==
    [ pc |-> "analyze",
      request |-> 1,
      n |-> n,
      rng |-> Unseeded,
      audio_track_ids |-> <<<<>>, <<>>>>,
      draws |-> <<<<>>, <<>>>>,
      seeded_draws |-> 0 ]

\* STEP 5 of analyze_taste: with more than 15 track ids the generator is
\* seeded with 42 and 15 ids are sampled.
AudioSample(st) ==
    LET track_ids == [i \in 1..st.n |-> i]
    IN  IF Len(track_ids) > AudioSampleSize
        THEN [st EXCEPT !.rng = Drawn(RandomSeed),
                        !.audio_track_ids[st.request] =
                            SampleBy(track_ids, AudioSampleSize, SeededOutcome(0)),
                        !.pc = DrawSites[1]]
        ELSE [st EXCEPT !.audio_track_ids[st.request] = track_ids, !.pc = DrawSites[1]]

\* One draw of generate_recommendations; after the last one the request
\* is answered and the next one begins.
EngineDraw(st, outcome) ==
    LET i == CHOOSE j \in 1..Len(DrawSites) : DrawSites[j] = st.pc
        t == [st EXCEPT !.rng = Drawn(st.rng),
                        !.draws[st.request] = Append(@, outcome),
                        !.seeded_draws = IF st.rng.seeded THEN @ + 1 ELSE @]
    IN  IF i < Len(DrawSites) THEN [t EXCEPT !.pc = DrawSites[i + 1]]
        ELSE IF st.request = 1 THEN [t EXCEPT !.request = 2, !.pc = "analyze"]
        ELSE [t EXCEPT !.pc = "done"]

AnalyzeAudio ==
    /\ an.pc = "analyze"
    /\ an' = AudioSample(an)
    /\ UNCHANGED <<library, an2, rec, sc, pl, mb>>

GenerateDraw ==
    /\ an.pc \in Range(DrawSites)
    /\ \E outcome \in DrawOutcomes(an.rng) : an' = EngineDraw(an, outcome)
    /\ UNCHANGED <<library, an2, rec, sc, pl, mb>>

InitSeed ==
    /\ library = [size |-> 0, local |-> 0]
    /\ an \in {SeedStart(n) : n \in {0, 1, AudioSampleSize, AudioSampleSize + 1, MaxLib + 2}}
    /\ an2 = Idle
    /\ rec = Idle
    /\ sc = Idle
    /\ pl = Idle
    /\ mb = Idle

NextSeed == AnalyzeAudio \/ GenerateDraw

SpecSeed == InitSeed /\ [][NextSeed]_vars

(***************************************************************************)
(* Specification SpecThrottle: request threads of one worker process that  *)
(* share the enricher of get_enricher() and call _search_artist and        *)
(* _get_artist_details.  Time is counted in tenths of a second; the        *)
(* request is sent at the moment _respect_rate_limit stores the time.      *)
(***************************************************************************)
MB_RATE_LIMIT_DELAY == 10
\* The clock moves in half delays and starts long after the epoch.
ClockStep == MB_RATE_LIMIT_DELAY \div 2
ClockStart == 10 * MB_RATE_LIMIT_DELAY

Threads == 1..MaxThreads

ThrottleStart ==
    [ now |-> ClockStart,
      last_request_time |-> 0,
      sent |-> <<>>,
      thr |-> [t \in Threads |-> [pc |-> "measure", elapsed |-> 0, wake |-> 0, left |-> 2]] ]

\* elapsed = time.time() - self.last_request_time
RateLimitMeasure(st, t) ==
    LET elapsed == st.now - st.last_request_time
    IN  IF elapsed < MB_RATE_LIMIT_DELAY
        THEN [st EXCEPT !.thr[t].elapsed = elapsed,
                        !.thr[t].wake = st.now + (MB_RATE_LIMIT_DELAY - elapsed),
                        !.thr[t].pc = "sleep"]
        ELSE [st EXCEPT !.thr[t].elapsed = elapsed, !.thr[t].pc = "stamp"]

\* time.sleep(sleep_time) has returned.
RateLimitWake(st, t) == [st EXCEPT !.thr[t].pc = "stamp"]

\* self.last_request_time = time.time() and self.session.get(...)
RateLimitStamp(st, t) ==
    [st EXCEPT !.last_request_time = st.now,
               !.sent = Append(@, [thread |-> t, at |-> st.now]),
               !.thr[t].left = @ - 1,
               !.thr[t].pc = IF st.thr[t].left > 1 THEN "measure" ELSE "done"]

Measure(t) ==
    /\ mb.thr[t].pc = "measure"
    /\ mb' = RateLimitMeasure(mb, t)
    /\ UNCHANGED <<library, an, an2, rec, sc, pl>>

Wake(t) ==
    /\ mb.thr[t].pc = "sleep"
    /\ mb.now >= mb.thr[t].wake
    /\ mb' = RateLimitWake(mb, t)
    /\ UNCHANGED <<library, an, an2, rec, sc, pl>>

Stamp(t) ==
    /\ mb.thr[t].pc = "stamp"
    /\ mb' = RateLimitStamp(mb, t)
    /\ UNCHANGED <<library, an, an2, rec, sc, pl>>

ClockTick ==
    /\ mb.now + ClockStep <= ClockStart + MaxClock
    /\ mb' = [mb EXCEPT !.now = @ + ClockStep]
    /\ UNCHANGED <<library, an, an2, rec, sc, pl>>

InitThrottle ==
    /\ library = [size |-> 0, local |-> 0]
    /\ an = Idle
    /\ an2 = Idle
    /\ rec = Idle
    /\ sc = Idle
    /\ pl = Idle
    /\ mb = ThrottleStart

NextThrottle ==
    \/ ClockTick
    \/ \E t \in Threads : Measure(t) \/ Wake(t) \/ Stamp(t)

SpecThrottle == InitThrottle /\ [][NextThrottle]_vars

(***************************************************************************)
(* Specification SpecJob: one mirror job, the writes of create_playlist_job *)
(* to JOBS[job_id] one at a time, and /job_status polled in between         *)
(***************************************************************************)
\* JOBS[job_id] as start_save stores it; total is None, and the keys
\* message, playlist_url and playlist_name are not there yet.
NewJob ==
    [status |-> "pending", progress |-> 0, total |-> Absent,
     message |-> Absent, playlist_url |-> Absent, playlist_name |-> Absent]

\* start_save has stored the job and started the thread.
StartSave(lib) ==
    [pc |-> "working", lib |-> lib, job |-> NewJob, seen |-> {}, offset |-> 0,
     uris |-> <<>>, i |-> 0, playlist |-> <<>>, exception |-> "none",
     response |-> <<>>]

\* An exception inside the try block: control moves to the except clauses.
JobRaise(st, exception) == [st EXCEPT !.pc = "except", !.exception = exception]

\* JOBS[job_id]['status'] = 'working'
JobWorking(st) == [st EXCEPT !.job.status = "working", !.pc = "current_user"]

\* sp.current_user() and the check of the user.
JobCurrentUser(st, ev) ==
    IF ev.outcome # "ok" THEN JobRaise(st, ev.outcome)
    ELSE IF ev.user # ExpectedUser THEN JobRaise(st, "ValueError")
         ELSE [st EXCEPT !.pc = "create"]

\* sp.user_playlist_create(...), then total and progress are set to 0.
JobCreatePlaylist(st, ev) ==
    IF ev.outcome # "ok" THEN JobRaise(st, ev.outcome)
    ELSE [st EXCEPT !.job.total = <<0>>, !.job.progress = 0, !.pc = "fetch"]

\* One page of the liked songs.
JobFetchPage(st, ev) ==
    IF ev.outcome # "ok" THEN JobRaise(st, ev.outcome)
    ELSE LET items == SavedUris(st.lib, MirrorPage, st.offset)
             uris == NewUris(st.seen, items)
         IN  IF items = <<>> THEN [st EXCEPT !.pc = "total"]
             ELSE IF uris = <<>> THEN [st EXCEPT !.offset = @ + MirrorPage]
                  ELSE [st EXCEPT !.seen = @ \cup Range(uris), !.uris = uris,
                                  !.i = 0, !.pc = "add"]

\* sp.user_playlist_add_tracks(.., chunk); progress += len(chunk)
JobAddTracks(st, ev) ==
    IF ev.outcome # "ok" THEN JobRaise(st, ev.outcome)
    ELSE LET chunk == Chunk(st.uris, st.i)
             u == [st EXCEPT !.playlist = @ \o chunk, !.i = @ + MirrorChunk,
                             !.job.progress = @ + Len(chunk)]
         IN  IF u.i < Len(u.uris) THEN u
             ELSE [u EXCEPT !.offset = @ + MirrorPage, !.pc = "fetch"]

\* The four writes after the loop, in the order of the code.
JobWriteTotal(st) == [st EXCEPT !.job.total = <<st.job.progress>>, !.pc = "status"]
JobWriteDone(st) == [st EXCEPT !.job.status = "done", !.pc = "playlist_url"]
JobWriteUrl(st) == [st EXCEPT !.job.playlist_url = <<"url">>, !.pc = "playlist_name"]
JobWriteName(st) == [st EXCEPT !.job.playlist_name = <<"name">>, !.pc = "end"]

\* Variant: the exception leaves the thread, the job is not touched.
JobExceptEscapes(st) == [st EXCEPT !.pc = "end"]

\* The except clauses: status first, message second.
JobExceptStatus(st) == [st EXCEPT !.job.status = "error", !.pc = "message"]
JobExceptMessage(st) == [st EXCEPT !.job.message = <<st.exception>>, !.pc = "end"]

\* /job_status: jsonify(JOBS[job_id])
JobStatus(st) == [st EXCEPT !.response = <<st.job>>]

JobLibraries ==
    [size : {0, 1, MirrorPage + 1, 2 * MirrorPage + 1}, repeat : {0}]
        \cup [size : {MirrorPage + 1}, repeat : {2, MirrorPage + 1}]

Working ==
    /\ pl.pc = "working" /\ pl' = JobWorking(pl)
    /\ UNCHANGED <<library, an, an2, rec, sc, mb>>

CurrentUser ==
    /\ pl.pc = "current_user"
    /\ \E ev \in [outcome : ApiOutcomes, user : {ExpectedUser, ExpectedUser + 1}] :
          pl' = JobCurrentUser(pl, ev)
    /\ UNCHANGED <<library, an, an2, rec, sc, mb>>

UserPlaylistCreate ==
    /\ pl.pc = "create"
    /\ \E ev \in [outcome : ApiOutcomes] : pl' = JobCreatePlaylist(pl, ev)
    /\ UNCHANGED <<library, an, an2, rec, sc, mb>>

SavedTracks ==
    /\ pl.pc = "fetch"
    /\ \E ev \in [outcome : ApiOutcomes] : pl' = JobFetchPage(pl, ev)
    /\ UNCHANGED <<library, an, an2, rec, sc, mb>>

AddTracks ==
    /\ pl.pc = "add"
    /\ \E ev \in [outcome : ApiOutcomes] : pl' = JobAddTracks(pl, ev)
    /\ UNCHANGED <<library, an, an2, rec, sc, mb>>

WriteTotal ==
    /\ pl.pc = "total" /\ pl' = JobWriteTotal(pl)
    /\ UNCHANGED <<library, an, an2, rec, sc, mb>>

WriteDone ==
    /\ pl.pc = "status" /\ pl' = JobWriteDone(pl)
    /\ UNCHANGED <<library, an, an2, rec, sc, mb>>

WriteUrl ==
    /\ pl.pc = "playlist_url" /\ pl' = JobWriteUrl(pl)
    /\ UNCHANGED <<library, an, an2, rec, sc, mb>>

WriteName ==
    /\ pl.pc = "playlist_name" /\ pl' = JobWriteName(pl)
    /\ UNCHANGED <<library, an, an2, rec, sc, mb>>

ExceptStatus ==
    /\ pl.pc = "except" /\ pl' = JobExceptStatus(pl)
    /\ UNCHANGED <<library, an, an2, rec, sc, mb>>

ExceptMessage ==
    /\ pl.pc = "message" /\ pl' = JobExceptMessage(pl)
    /\ UNCHANGED <<library, an, an2, rec, sc, mb>>

\* The browser polls /job_status at any moment after start_save.
Poll ==
    /\ pl' = JobStatus(pl)
    /\ UNCHANGED <<library, an, an2, rec, sc, mb>>

InitJob ==
    /\ library = [size |-> 0, local |-> 0]
    /\ an = Idle
    /\ an2 = Idle
    /\ rec = Idle
    /\ sc = Idle
    /\ pl \in {StartSave(lib) : lib \in JobLibraries}
    /\ mb = Idle

NextJob ==
    \/ Working
    \/ CurrentUser
    \/ UserPlaylistCreate
    \/ SavedTracks
    \/ AddTracks
    \/ WriteTotal
    \/ WriteDone
    \/ WriteUrl
    \/ WriteName
    \/ ExceptStatus
    \/ ExceptMessage
    \/ Poll

SpecJob == InitJob /\ [][NextJob]_vars

(***************************************************************************)
(* Specification SpecPipe: the request /api/generate-recommendations,      *)
(* analyze_taste and then generate_recommendations on its profile.  The    *)
(* last saved track of the library is a top track of artist 1.             *)
(***************************************************************************)
\* Instant calls, no playlist.
Quick ==
    [ lat |-> {0},
      offsets |-> {0},
      pool |-> {TrackOf(NoId)},
      dims |-> {AudioDims} ]

PipeCatalogue ==
    [Catalogue EXCEPT !.top_tracks[1] = <<library.size, 900>>,
                      !.user_top_artists = {<<>>, <<1, 2>>}]

\* The endpoint hands the profile to the engine; an error result without
\* artists ends the request.
RecommendFromProfile ==
    /\ an.pc = "done"
    /\ an.result.kind = "profile"
    /\ rec.pc = "idle"
    /\ \E available \in BOOLEAN :
          rec' = EngineStart(an.result, 20, [era |-> "any", mood |-> "any", discovery |-> 50],
                             available)
    /\ UNCHANGED <<library, an, an2, sc, pl, mb>>

InitPipe ==
    /\ library \in [size : {1, MaxBigLib}, local : {0}]
    /\ an = AnalyzerStart(15, FALSE, 0, 0, 15)
    /\ an2 = Idle
    /\ rec = Idle
    /\ sc = Idle
    /\ pl = Idle
    /\ mb = Idle

NextPipe ==
    \/ ExclusionPage(Quick)
    \/ LikedFetch(Quick)
    \/ PlaylistsGate
    \/ ValidateTracks
    \/ GenresGate
    \/ GetArtistGenres(Quick)
    \/ AudioFeaturesGate
    \/ GetTrackAudioFeatures(Quick)
    \/ ReturnProfile
    \/ RecommendFromProfile
    \/ Generate(PipeCatalogue)
    \/ TopTracks(PipeCatalogue)
    \/ RecentAlbums(PipeCatalogue)
    \/ AlbumTracks(PipeCatalogue)
    \/ Related(PipeCatalogue)
    \/ SearchGenre(PipeCatalogue)
    \/ OrderDiscovery
    \/ DiscoveryTracks(PipeCatalogue)
    \/ Enrich(PipeCatalogue)
    \/ ScoreCandidates(PipeCatalogue)

SpecPipe == InitPipe /\ [][NextPipe]_vars

(***************************************************************************)
(* Specification SpecBatch: one playlist being filled, by                  *)
(* create_recommendation_playlist or by the liked-songs mirror             *)
(***************************************************************************)
\* n recommendations, the one at position missing without 'uri'.
RecommendationUris(n, missing) == [k \in 1..n |-> IF k = missing THEN NoUri ELSE k]

RecommendationLists ==
    {RecommendationUris(n, m) : n \in {0, 1, AddBatch, AddBatch + 1, 2 * AddBatch + 1, MaxRecs},
                                m \in {0, 1}}

MirrorLibraries ==
    [size : {0, 1, MirrorPage, MirrorPage + 1, 2 * MirrorPage, 2 * MirrorPage + 1,
             MaxMirrorLib}, repeat : {0}]
        \cup [size : {MirrorPage + 1, MaxMirrorLib}, repeat : {2, MirrorPage + 1}]

NoLibrary == [size |-> 0, repeat |-> 0]

PlaylistRuns ==
    {PlaylistStart("create_recommendation_playlist", r, NoLibrary) : r \in RecommendationLists}
        \cup {PlaylistStart(fn, <<>>, lib) :
                  fn \in {"create_playlist_job", "save_liked"}, lib \in MirrorLibraries}

CallEvents == [outcome : ApiOutcomes]

CreatePlaylist ==
    /\ pl.fn = "create_recommendation_playlist" /\ pl.pc = "create"
    /\ \E ev \in CallEvents : pl' = CreateRecommendationPlaylist(pl, ev)
    /\ UNCHANGED <<library, an, an2, rec, sc, mb>>

AddItems ==
    /\ pl.fn = "create_recommendation_playlist" /\ pl.pc = "add"
    /\ \E ev \in CallEvents : pl' = PlaylistAddItems(pl, ev)
    /\ UNCHANGED <<library, an, an2, rec, sc, mb>>

MirrorUser ==
    /\ pl.pc = "current_user"
    /\ \E ev \in [outcome : ApiOutcomes, user : {ExpectedUser, ExpectedUser + 1}] :
          pl' = MirrorCurrentUser(pl, ev)
    /\ UNCHANGED <<library, an, an2, rec, sc, mb>>

MirrorCreate ==
    /\ pl.fn # "create_recommendation_playlist" /\ pl.pc = "create"
    /\ \E ev \in CallEvents : pl' = MirrorCreatePlaylist(pl, ev)
    /\ UNCHANGED <<library, an, an2, rec, sc, mb>>

MirrorFetch ==
    /\ pl.pc = "fetch"
    /\ \E ev \in CallEvents : pl' = MirrorFetchPage(pl, ev)
    /\ UNCHANGED <<library, an, an2, rec, sc, mb>>

MirrorAdd ==
    /\ pl.fn # "create_recommendation_playlist" /\ pl.pc = "add"
    /\ \E ev \in CallEvents : pl' = MirrorAddTracks(pl, ev)
    /\ UNCHANGED <<library, an, an2, rec, sc, mb>>

InitBatch ==
    /\ library = [size |-> 0, local |-> 0]
    /\ an = Idle
    /\ an2 = Idle
    /\ rec = Idle
    /\ sc = Idle
    /\ pl \in PlaylistRuns
    /\ mb = Idle

NextBatch ==
    \/ CreatePlaylist
    \/ AddItems
    \/ MirrorUser
    \/ MirrorCreate
    \/ MirrorFetch
    \/ MirrorAdd

SpecBatch == InitBatch /\ [][NextBatch]_vars

(***************************************************************************)
(* Specification SpecLimits: one run of analyze_taste for every            *)
(* combination of include_playlists, playlist_limit and                    *)
(* tracks_per_playlist, the defaults among them; calls last 0 or           *)
(* MaxLatency seconds.                                                     *)
(***************************************************************************)
Brief ==
    [ lat |-> {0, MaxLatency},
      offsets |-> {0},
      pool |-> {TrackOf(900)},
      dims |-> {AudioDims} ]

InitLimits ==
    /\ library \in [size : {0, 16}, local : {0}]
    /\ an \in {AnalyzerStart(20, incl, plimit, per, 15) :
                  incl \in BOOLEAN, plimit \in {0, 1}, per \in {1, 3}}
    /\ an2 = Idle
    /\ rec = Idle
    /\ sc = Idle
    /\ pl = Idle
    /\ mb = Idle

NextLimits ==
    \/ ExclusionPage(Brief)
    \/ LikedFetch(Brief)
    \/ PlaylistsGate
    \/ GetUserPlaylists(Brief)
    \/ GetPlaylistTracks(Brief)
    \/ ValidateTracks
    \/ GenresGate
    \/ GetArtistGenres(Brief)
    \/ AudioFeaturesGate
    \/ GetTrackAudioFeatures(Brief)
    \/ ReturnProfile

SpecLimits == InitLimits /\ [][NextLimits]_vars

(***************************************************************************)
(* Specification SpecFetch: one call of get_artist_genres(artist_ids) or   *)
(* get_track_audio_features(track_ids) with n ids.  attempts lists the     *)
(* API calls made, each with the start of its batch and how it ended;      *)
(* gathered lists the batches whose answer was counted.                    *)
(***************************************************************************)
GenreBatchSize == 50
AudioBatchSize == 100
BatchSize(fn) == IF fn = "get_artist_genres" THEN GenreBatchSize ELSE AudioBatchSize

\* for i in range(0, len(ids), size): the loop is over without ids.
BatchFetchStart(fn, n) ==
    [ pc |-> IF n = 0 THEN "done" ELSE "call",
      fn |-> fn, n |-> n, i |-> 0, retry |-> 0,
      attempts |-> <<>>, gathered |-> <<>> ]

\* The outer loop goes to the next batch, or the function returns.
NextBatchOf(st) ==
    IF st.i + BatchSize(st.fn) < st.n
    THEN [st EXCEPT !.i = @ + BatchSize(st.fn), !.retry = 0]
    ELSE [st EXCEPT !.pc = "done", !.retry = 0]

\* One attempt of one batch: success and a network error leave the retry
\* loop with break, a second SpotifyException ends it; in each case the
\* outer loop goes on.
BatchFetchCall(st, ev) ==
    LET t == [st EXCEPT !.attempts = Append(@, [i |-> st.i, outcome |-> ev.outcome])]
    IN  CASE ev.outcome = "ok" -> NextBatchOf([t EXCEPT !.gathered = Append(@, st.i)])
          [] ev.outcome = "spotify_error" ->
               IF st.retry = 1 THEN NextBatchOf(t) ELSE [t EXCEPT !.retry = 1]
          [] OTHER -> NextBatchOf(t)

FetchBatch ==
    /\ an.pc = "call"
    /\ \E ev \in [outcome : ApiOutcomes] : an' = BatchFetchCall(an, ev)
    /\ UNCHANGED <<library, an2, rec, sc, pl, mb>>

InitFetch ==
    /\ library = [size |-> 0, local |-> 0]
    /\ an \in {BatchFetchStart(fn, n) :
                  fn \in {"get_artist_genres", "get_track_audio_features"},
                  n \in {0, 1, GenreBatchSize, GenreBatchSize + 1, AudioBatchSize + 1,
                         MaxFetchIds}}
    /\ an2 = Idle
    /\ rec = Idle
    /\ sc = Idle
    /\ pl = Idle
    /\ mb = Idle

NextFetch == FetchBatch

SpecFetch == InitFetch /\ [][NextFetch]_vars

(***************************************************************************)
(* Specification SpecRetry: one run of analyze_taste with instant calls;   *)
(* an2 holds what the last API call was: its call site, the offset it      *)
(* asked for, which attempt of that page it was and how it ended.          *)
(***************************************************************************)
CallSites == {"exclusion", "liked", "get_user_playlists", "get_playlist_tracks",
              "get_artist_genres", "get_track_audio_features"}

\* How the call of a step ended; where the code catches every exception
\* alike (exclusion ids, liked songs) the event only says "error" and
\* raised names the exception.
CallOutcome(st, lib, ev, raised) ==
    IF st.pc = "liked"
    THEN IF RaisedInLikedSongs(lib, st.liked_songs_limit, ev) # "none" THEN raised ELSE "ok"
    ELSE IF ev.outcome = "error" THEN raised ELSE ev.outcome

AnalyzerCall ==
    /\ an.pc \in CallSites
    /\ \E ev \in AnalyzerEvents(Quick, an), raised \in ApiOutcomes \ {"ok"} :
          /\ an' = AnalyzerStep(an, library, ev)
          /\ an2' = [pc |-> "log", site |-> an.pc, offset |-> an.offset,
                     attempt |-> an.retry + 1,
                     outcome |-> CallOutcome(an, library, ev, raised)]
    /\ UNCHANGED <<library, rec, sc, pl, mb>>

AnalyzerGate ==
    /\ an.pc \in {"playlists", "validate", "genre", "audio", "finish"}
    /\ an' = AnalyzerStep(an, library, NoEvent)
    /\ UNCHANGED <<library, an2, rec, sc, pl, mb>>

InitRetry ==
    /\ library \in [size : {0, 3, ExclusionBatch + 1}, local : {0}]
    /\ an \in {AnalyzerStart(20, c[1], c[2], 3, 15) : c \in {<<FALSE, 0>>, <<TRUE, 1>>}}
    /\ an2 = [pc |-> "log", site |-> "none", offset |-> 0, attempt |-> 0, outcome |-> "none"]
    /\ rec = Idle
    /\ sc = Idle
    /\ pl = Idle
    /\ mb = Idle

NextRetry == AnalyzerCall \/ AnalyzerGate

SpecRetry == InitRetry /\ [][NextRetry]_vars

(***************************************************************************)
(* Specification SpecTwice: create_recommendation_playlist invoked twice   *)
(* with the same user, playlist name and tracks                            *)
(***************************************************************************)
InvokeAgain ==
    /\ pl.fn = "create_recommendation_playlist"
    /\ pl.pc \in {"done", "raised"}
    /\ pl.earlier = <<>>
    /\ pl' = CreateRecommendationPlaylistAgain(pl)
    /\ UNCHANGED <<library, an, an2, rec, sc, mb>>

InitTwice ==
    /\ library = [size |-> 0, local |-> 0]
    /\ an = Idle
    /\ an2 = Idle
    /\ rec = Idle
    /\ sc = Idle
    /\ pl \in {PlaylistStart("create_recommendation_playlist", r, NoLibrary) :
                  r \in RecommendationLists}
    /\ mb = Idle

NextTwice ==
    \/ CreatePlaylist
    \/ AddItems
    \/ InvokeAgain

SpecTwice == InitTwice /\ [][NextTwice]_vars

(***************************************************************************)
(* Specification SpecGenre: analyze_taste from "Validate we have tracks"   *)
(* over small libraries in which each track credits one artist, as in the  *)
(* small-library scenario (8/5/2 tracks of three artists, rock and jazz)   *)
(***************************************************************************)
ScenarioArtists == <<2, 3, 20, 1>>
ScenarioCounts == <<{0, 2, 5, 8}, {0, 2, 5, 8}, {0, 2, 5, 8}, {0, 3}>>

\* The liked tracks: counts[k] tracks of the k-th artist, artist by artist.
RECURSIVE TracksOfArtists(_, _)
TracksOfArtists(counts, k) ==
    IF k > Len(counts) THEN <<>>
    ELSE LET rest == TracksOfArtists(counts, k + 1)
         IN  [i \in 1..counts[k] |->
                 [id |-> Len(rest) + i, artists |-> <<ScenarioArtists[k]>>]] \o rest

GenreInputs ==
    LET counts == {c \in [1..4 -> 0..8] : \A k \in 1..4 : c[k] \in ScenarioCounts[k]}
    IN  {TracksOfArtists(c, 1) : c \in counts}
            \cup {Reverse(TracksOfArtists(c, 1)) : c \in counts}

InitGenre ==
    /\ library = [size |-> 0, local |-> 0]
    /\ an \in {AtValidate(tracks) : tracks \in GenreInputs}
    /\ an2 = Idle
    /\ rec = Idle
    /\ sc = Idle
    /\ pl = Idle
    /\ mb = Idle

NextGenre ==
    \/ ValidateTracks
    \/ GenresGate
    \/ GetArtistGenres(Instant)
    \/ AudioFeaturesGate
    \/ GetTrackAudioFeatures(Instant)
    \/ ReturnProfile

SpecGenre == InitGenre /\ [][NextGenre]_vars

(***************************************************************************)
(* Specification SpecCache: concurrent calls of                            *)
(* MusicBrainzEnricher.enrich_artist that share the SQLite cache.  The     *)
(* table mb_artists is the sequence of its rows; a write transaction is    *)
(* staged under the database lock by c.execute and becomes visible, whole, *)
(* at conn.commit(); a reader sees committed rows only.  A text column     *)
(* holding ','.join(names) is kept as the pieces that split(',') finds in  *)
(* it, the empty text as no piece.  Time is counted in days.               *)
(***************************************************************************)
NoRow == [spotify_id |-> NoId]
MaxAgeDays == 30
Today == 100

\* The pieces between the commas of one name.
Pieces(name) == IF name = "rock,roll" THEN <<"rock", "roll">> ELSE <<name>>

\* ','.join(names) if names else ''
RECURSIVE JoinComma(_)
JoinComma(names) ==
    LET joined == IF names = <<>> THEN <<>>
                  ELSE Pieces(Head(names)) \o JoinComma(Tail(names))
    IN  IF joined = <<"">> THEN <<>> ELSE joined

\* The rows of the table with this primary key.
RowsOf(table, spotify_id) == SelectSeq(table, LAMBDA row : row.spotify_id = spotify_id)

\* Variant: the row of the artist whatever its age.
GetArtistDataAnyAge(table, spotify_id, now) ==
    LET rows == RowsOf(table, spotify_id)
    IN  IF rows = <<>> THEN NoRow ELSE rows[1]

\* MusicBrainzCache.get_artist_data: the row of the artist when it is
\* younger than max_age_days.
GetArtistData(table, spotify_id, now) ==
    LET rows == SelectSeq(RowsOf(table, spotify_id),
                          LAMBDA row : row.cached_at > now - MaxAgeDays)
    IN  IF rows = <<>> THEN NoRow ELSE rows[1]

\* The row that MusicBrainzCache.save_artist_data writes.
SaveArtistData(spotify_id, mb_id, name, genres, tags, rating, now) ==
    [ spotify_id |-> spotify_id, mb_id |-> mb_id, artist_name |-> name,
      genres |-> JoinComma(genres), tags |-> JoinComma(tags), rating |-> rating,
      cached_at |-> now ]

\* Variant: INSERT without OR REPLACE on a table without the primary key.
InsertOnly(table, row) == Append(table, row)

\* INSERT OR REPLACE on the primary key spotify_id.
InsertOrReplace(table, row) ==
    Append(SelectSeq(table, LAMBDA old : old.spotify_id # row.spotify_id), row)

\* What enrich_artist returns.
Enrichment(genres, tags, rating, from_cache) ==
    [mb_genres |-> genres, mb_tags |-> tags, mb_rating |-> rating, from_cache |-> from_cache]

\* One call enrich_artist(spotify_id, artist_name) at its start.
EnrichStart(spotify_id) ==
    [ pc |-> "check", spotify_id |-> spotify_id, artist_name |-> "artist",
      cached_data |-> NoRow, mb_id |-> "", row |-> NoRow, result |-> NoResult ]

\* What MusicBrainz answers: _get_artist_details and its fallback.
ArtistDetails ==
    { [genres |-> <<"rock", "jazz">>, tags |-> <<"chill">>, rating |-> 45],
      [genres |-> <<"rock,roll">>, tags |-> <<>>, rating |-> 30],
      [genres |-> <<>>, tags |-> <<>>, rating |-> 0] }

\* The tables the requests may find: empty, a fresh row of artist 2, and
\* with it a row of artist 1 that is older than max_age_days.
CachedTables ==
    LET fresh == SaveArtistData(2, "mbid-2", "artist", <<"pop">>, <<"dark">>, 40, Today - 10)
        stale == SaveArtistData(1, "mbid-0", "artist", <<"folk">>, <<>>, 10, Today - 50)
    IN  {<<>>, <<fresh>>, <<stale, fresh>>}

Requests == 1..MaxRequests

\* cached_data = self.cache.get_artist_data(spotify_id)
EnrichCheck(r) ==
    /\ mb.req[r].pc = "check"
    /\ LET cached_data == GetArtistData(mb.table, mb.req[r].spotify_id, mb.now)
       IN  mb' = [mb EXCEPT !.req[r] =
                     IF cached_data # NoRow
                     THEN [@ EXCEPT !.pc = "done", !.cached_data = cached_data,
                                    !.result = Enrichment(cached_data.genres, cached_data.tags,
                                                          cached_data.rating, TRUE)]
                     ELSE [@ EXCEPT !.pc = "search"]]
    /\ UNCHANGED <<library, an, an2, rec, sc, pl>>

\* Step 1: _search_artist; without an MBID the empty row is saved.
EnrichSearch(r) ==
    /\ mb.req[r].pc = "search"
    /\ \E mb_id \in {"", "mbid-1"} :
          mb' = [mb EXCEPT !.req[r] =
                    IF mb_id = ""
                    THEN [@ EXCEPT !.pc = "save",
                                   !.row = SaveArtistData(mb.req[r].spotify_id, "", mb.req[r].artist_name,
                                                          <<>>, <<>>, 0, mb.now),
                                   !.result = Enrichment(<<>>, <<>>, 0, FALSE)]
                    ELSE [@ EXCEPT !.pc = "details", !.mb_id = mb_id]]
    /\ UNCHANGED <<library, an, an2, rec, sc, pl>>

\* Step 2: _get_artist_details.
EnrichDetails(r) ==
    /\ mb.req[r].pc = "details"
    /\ \E details \in ArtistDetails :
          mb' = [mb EXCEPT !.req[r] =
                    [@ EXCEPT !.pc = "save",
                              !.row = SaveArtistData(mb.req[r].spotify_id, mb.req[r].mb_id, mb.req[r].artist_name,
                                                     details.genres, details.tags,
                                                     details.rating, mb.now),
                              !.result = Enrichment(details.genres, details.tags,
                                                    details.rating, FALSE)]]
    /\ UNCHANGED <<library, an, an2, rec, sc, pl>>

\* Step 3, c.execute: the write transaction takes the database lock.
SaveExecute(r) ==
    /\ mb.req[r].pc = "save"
    /\ mb.lock = 0
    /\ mb' = [mb EXCEPT !.lock = r, !.staged = mb.req[r].row, !.req[r].pc = "commit"]
    /\ UNCHANGED <<library, an, an2, rec, sc, pl>>

\* Step 3, c.execute while another transaction holds the lock for longer
\* than the busy timeout: sqlite3.OperationalError leaves enrich_artist.
SaveLocked(r) ==
    /\ mb.req[r].pc = "save"
    /\ mb.lock \notin {0, r}
    /\ mb' = [mb EXCEPT !.req[r].pc = "raised",
                        !.req[r].result = [kind |-> "raise", exception |-> "OperationalError"]]
    /\ UNCHANGED <<library, an, an2, rec, sc, pl>>

\* Step 3, conn.commit(): the row replaces the rows of its key and the lock
\* is released.
SaveCommit(r) ==
    /\ mb.req[r].pc = "commit"
    /\ mb.lock = r
    /\ mb' = [mb EXCEPT !.table = InsertOrReplace(@, mb.staged),
                        !.lock = 0, !.staged = NoRow,
                        !.commits = Append(@, r),
                        !.req[r].pc = "done"]
    /\ UNCHANGED <<library, an, an2, rec, sc, pl>>

InitCache ==
    /\ library = [size |-> 0, local |-> 0]
    /\ an = Idle
    /\ an2 = Idle
    /\ rec = Idle
    /\ sc = Idle
    /\ pl = Idle
    /\ \E table \in CachedTables, other \in {1, 2} :
          mb = [ table |-> table, initial |-> table, lock |-> 0, staged |-> NoRow,
                 now |-> Today, commits |-> <<>>,
                 req |-> [r \in Requests |->
                             EnrichStart(IF r = MaxRequests THEN other ELSE 1)] ]

NextCache ==
    \E r \in Requests :
        \/ EnrichCheck(r)
        \/ EnrichSearch(r)
        \/ EnrichDetails(r)
        \/ SaveExecute(r)
        \/ SaveLocked(r)
        \/ SaveCommit(r)

SpecCache == InitCache /\ [][NextCache]_vars

(***************************************************************************)
(* Specification SpecLookup: calls of enrich_artist and                    *)
(* batch_enrich_artists one after the other on one cache, days passing in  *)
(* between.  A request counts as sent whether or not it is answered.       *)
(***************************************************************************)
LookupArtists == {1, 2, 3}

\* What the two requests of a lookup meet: the search finds an MBID, finds
\* none or fails; the details arrive or the request fails.
LookupAnswers ==
    { [search |-> "found", details |-> [genres |-> <<"rock", "jazz">>, tags |-> <<"chill">>,
                                        rating |-> 45], failed |-> FALSE],
      [search |-> "found", details |-> [genres |-> <<>>, tags |-> <<>>, rating |-> 0],
       failed |-> TRUE],
      [search |-> "none", details |-> [genres |-> <<>>, tags |-> <<>>, rating |-> 0],
       failed |-> FALSE],
      [search |-> "error", details |-> [genres |-> <<>>, tags |-> <<>>, rating |-> 0],
       failed |-> TRUE] }

\* enrich_artist(spotify_id, artist_name) as one call: the table after it,
\* what it returns and the requests it sent.
EnrichArtist(table, now, spotify_id, ans) ==
    LET cached_data == GetArtistData(table, spotify_id, now)
    IN  IF cached_data # NoRow
        THEN [table |-> table, sent |-> 0, how |-> "cache",
              result |-> Enrichment(cached_data.genres, cached_data.tags,
                                    cached_data.rating, TRUE)]
        ELSE IF ans.search # "found"
             THEN [table |-> InsertOrReplace(table,
                                SaveArtistData(spotify_id, "", "artist", <<>>, <<>>, 0, now)),
                   sent |-> 1, how |-> ans.search,
                   result |-> Enrichment(<<>>, <<>>, 0, FALSE)]
             ELSE [table |-> InsertOrReplace(table,
                                SaveArtistData(spotify_id, "mbid-1", "artist",
                                               ans.details.genres, ans.details.tags,
                                               ans.details.rating, now)),
                   sent |-> 2, how |-> IF ans.failed THEN "details_error" ELSE "found",
                   result |-> Enrichment(ans.details.genres, ans.details.tags,
                                         ans.details.rating, FALSE)]

Skipped == [mb_genres |-> <<>>, mb_tags |-> <<>>, mb_rating |-> 0, from_cache |-> FALSE, skipped |-> TRUE]

\* The loop of batch_enrich_artists over the artists left; acc holds the
\* table, enriched, new_lookups and, for the record, the requests sent and
\* the artists looked up.
RECURSIVE BatchEnrichLoop(_, _, _, _, _)
BatchEnrichLoop(acc, now, artists, max_new_lookups, ans) ==
    IF artists = <<>> THEN acc
    ELSE LET spotify_id == Head(artists)
             cached_data == GetArtistData(acc.table, spotify_id, now)
             got == EnrichArtist(acc.table, now, spotify_id, ans)
             next ==
                 IF cached_data # NoRow
                 THEN [acc EXCEPT !.enriched = (spotify_id :>
                           Enrichment(cached_data.genres, cached_data.tags,
                                      cached_data.rating, TRUE)) @@ @]
                 ELSE IF acc.new_lookups < max_new_lookups
                      THEN [acc EXCEPT !.table = got.table,
                                       !.enriched = (spotify_id :> got.result) @@ @,
                                       !.new_lookups = @ + 1,
                                       !.sent = @ + got.sent,
                                       !.looked_up = @ \cup {spotify_id}]
                      ELSE [acc EXCEPT !.enriched = (spotify_id :> Skipped) @@ @]
         IN  BatchEnrichLoop(next, now, Tail(artists), max_new_lookups, ans)

BatchEnrichArtists(table, now, artists, max_new_lookups, ans) ==
    BatchEnrichLoop([table |-> table, enriched |-> <<>>, new_lookups |-> 0, sent |-> 0,
                     looked_up |-> {}],
                    now, artists, max_new_lookups, ans)

NoCall == [op |-> "none"]

\* The time of the last lookup of each artist, -1 before the first.
NeverRan == [a \in LookupArtists |-> [at |-> -1, how |-> "none"]]

CallEnrichArtist ==
    /\ mb.calls < MaxCalls
    /\ \E spotify_id \in LookupArtists, ans \in LookupAnswers :
          LET got == EnrichArtist(mb.table, mb.now, spotify_id, ans)
          IN  mb' = [mb EXCEPT
                  !.table = got.table,
                  !.calls = @ + 1,
                  !.ran = IF got.sent > 0
                          THEN [@ EXCEPT ![spotify_id] = [at |-> mb.now, how |-> got.how]]
                          ELSE @,
                  !.last = [op |-> "enrich_artist", artists |-> <<spotify_id>>,
                            max_new_lookups |-> 1, sent |-> got.sent,
                            looked_up |-> IF got.sent > 0 THEN {spotify_id} ELSE {},
                            enriched |-> (spotify_id :> got.result),
                            table |-> mb.table, ran |-> mb.ran, at |-> mb.now]]
    /\ UNCHANGED <<library, an, an2, rec, sc, pl>>

CallBatchEnrich ==
    /\ mb.calls < MaxCalls
    /\ \E artists \in {<<>>, <<3>>, <<1, 2>>, <<1, 2, 3>>}, k \in 0..2, ans \in LookupAnswers :
          LET got == BatchEnrichArtists(mb.table, mb.now, artists, k, ans)
          IN  mb' = [mb EXCEPT
                  !.table = got.table,
                  !.calls = @ + 1,
                  !.ran = [a \in LookupArtists |->
                              IF a \in got.looked_up
                              THEN [at |-> mb.now,
                                    how |-> EnrichArtist(<<>>, mb.now, a, ans).how]
                              ELSE mb.ran[a]],
                  !.last = [op |-> "batch_enrich_artists", artists |-> artists,
                            max_new_lookups |-> k, sent |-> got.sent,
                            looked_up |-> got.looked_up,
                            enriched |-> got.enriched,
                            table |-> mb.table, ran |-> mb.ran, at |-> mb.now]]
    /\ UNCHANGED <<library, an, an2, rec, sc, pl>>

DaysPass ==
    /\ \E days \in {MaxAgeDays - 1, MaxAgeDays, MaxAgeDays + 1} :
          /\ mb.now + days <= Today + MaxDays
          /\ mb' = [mb EXCEPT !.now = @ + days]
    /\ UNCHANGED <<library, an, an2, rec, sc, pl>>

InitLookup ==
    /\ library = [size |-> 0, local |-> 0]
    /\ an = Idle
    /\ an2 = Idle
    /\ rec = Idle
    /\ sc = Idle
    /\ pl = Idle
    /\ mb \in {[table |-> table, now |-> Today, calls |-> 0, ran |-> NeverRan, last |-> NoCall] :
                  table \in CachedTables}

NextLookup == CallEnrichArtist \/ CallBatchEnrich \/ DaysPass

SpecLookup == InitLookup /\ [][NextLookup]_vars

(***************************************************************************)
(* Claims about analyze_taste                                              *)
(***************************************************************************)
Returned(st) == st.pc \in {"done", "raised"}
PastLiked(st) == st.pc \notin {"exclusion", "liked"}

\* C4: a stage whose gate measured more than 30%, 50%, 60% of
\* max_analysis_time (playlists, genres, audio features) has issued no API
\* call; a skipped genre stage leaves top_genres and genre_seeds empty, a
\* skipped audio stage leaves avg_audio_features empty.
C4_SkippedStagesCallNothing ==
    /\ (an.gate.playlists >= 0 /\ Exceeds(an.gate.playlists, an.max_analysis_time, 3))
          => an.calls.playlists = 0 /\ an.calls.playlist_items = 0
    /\ (an.gate.genre >= 0 /\ Exceeds(an.gate.genre, an.max_analysis_time, 5))
          => /\ an.calls.artists = 0
             /\ an.result.kind = "profile" =>
                    an.result.top_genres = <<>> /\ an.result.genre_seeds = <<>>
    /\ (an.gate.audio >= 0 /\ Exceeds(an.gate.audio, an.max_analysis_time, 6))
          => /\ an.calls.audio_features = 0
             /\ an.result.kind = "profile" => an.result.avg_audio_features = {}

\* C4 witness: a profile returned after the requested playlist stage and
\* the genre stage were both skipped at their gates.
C4_Witness ==
    /\ an.pc = "done"
    /\ an.result.kind = "profile"
    /\ {"playlists", "genre"} \subseteq an.skipped

C6_ProfileOnceLiked ==
    (Returned(an) /\ an.liked_tracks # <<>>) => an.result.kind = "profile"

\* C6 amended: once the liked-songs fetch returned a track and the time
\* measured right after it is at most 10 seconds, analyze_taste does not
\* raise and returns a profile, whatever failures or delays occur in the
\* exclusion, playlist, genre or audio-feature stages; a failed genre or
\* audio stage leaves its sub-result empty.
C6_ProfileOnceLikedWithinCeiling ==
    (PastLiked(an) /\ an.liked_tracks # <<>> /\ an.gate.liked <= HardCeiling)
        => /\ an.pc # "raised"
           /\ Returned(an) => an.result.kind = "profile"

\* C6 witness: a profile returned although both attempts of the genre
\* lookup failed.
C6_Witness ==
    /\ an.pc = "done"
    /\ an.result.kind = "profile"
    /\ an.liked_tracks # <<>>
    /\ an.calls.artists = 2
    /\ an.result.top_genres = <<>>

\* C7: the tracks analysed hold each track id once, also when a track came
\* from the liked songs and from a playlist, and track_count is the number
\* of distinct ids collected.
C7_TracksUnique ==
    (an.pc \in {"genre", "get_artist_genres", "audio", "get_track_audio_features",
                "finish", "done"} /\ an.result.kind # "error")
        => /\ \A i, j \in 1..Len(an.all_tracks) :
                 an.all_tracks[i].id = an.all_tracks[j].id => i = j
           /\ an.result.kind = "profile" =>
                 an.result.track_count =
                     Cardinality(Range(IdsOf(an.liked_tracks \o an.playlist_tracks)))

\* C7 witness: a profile over a track that was both liked and in the
\* playlist.
C7_Witness ==
    /\ an.pc = "done"
    /\ an.result.kind = "profile"
    /\ Range(IdsOf(an.liked_tracks)) \cap Range(IdsOf(an.playlist_tracks)) # {}

\* The gated stages a run did not skip.
StagesRun(st) == Cardinality(st.ran)

\* The run reached the playlist gate with include_playlists true and
\* playlist_limit > 0, so that the gate ran or skipped the stage.
PlaylistStageAsked(st) == "playlists" \in (st.ran \cup st.skipped)

\* C3 as stated: of two runs that differ only in max_analysis_time and get
\* the same answers and latencies, the one with the larger budget runs at
\* least as many stages.
C3_BudgetMonotone ==
    (Returned(an) /\ Returned(an2)) => StagesRun(an2) >= StagesRun(an)

\* C3 amended: of two runs without a playlist stage (include_playlists
\* false or playlist_limit = 0) that differ only in max_analysis_time and
\* get the same answers and latencies, the one with the larger budget runs
\* at least as many stages.
C3_BudgetMonotoneNoPlaylists ==
    (Returned(an) /\ Returned(an2) /\ ~PlaylistStageAsked(an))
        => StagesRun(an2) >= StagesRun(an)

\* C3 witness: without a playlist stage, the larger budget ran a stage the
\* smaller budget skipped.
C3_Witness ==
    /\ an.pc = "done" /\ an2.pc = "done"
    /\ an.gate.playlists >= 0 /\ an.playlist_limit = 0
    /\ an.max_analysis_time < an2.max_analysis_time
    /\ StagesRun(an2) > StagesRun(an)

\* The places where the tracks credit an artist: <<track, credit>>.
CreditsOf(tracks, a) ==
    {p \in UNION {{<<i, j>> : j \in 1..Len(tracks[i].artists)} : i \in 1..Len(tracks)} :
        tracks[p[1]].artists[p[2]] = a}
CreditCount(tracks, a) == Cardinality(CreditsOf(tracks, a))
SeenBefore(tracks, a, b) ==
    \E p \in CreditsOf(tracks, a) : \A q \in CreditsOf(tracks, b) :
        p[1] < q[1] \/ (p[1] = q[1] /\ p[2] < q[2])
\* Artist a ranks ahead of artist b: more credits, or as many and seen first.
RanksAhead(tracks, a, b) ==
    \/ CreditCount(tracks, a) > CreditCount(tracks, b)
    \/ CreditCount(tracks, a) = CreditCount(tracks, b) /\ SeenBefore(tracks, a, b)
CreditedArtists(tracks) ==
    UNION {Range(tracks[i].artists) : i \in 1..Len(tracks)} \ {NoId}

\* C8: top_artist_ids holds at most 10 artist ids (all of them when there
\* are at most 10), without repetition, ordered by descending occurrence
\* count with ties in first-seen order; every artist left out ranks behind
\* every artist kept.
C8_TopArtistsRanked ==
    (an.pc = "genre") =>
        LET top == an.top_artist_ids
            tracks == an.all_tracks
        IN  /\ Len(top) = Min(TopArtists, Cardinality(CreditedArtists(tracks)))
            /\ Range(top) \subseteq CreditedArtists(tracks)
            /\ \A i, j \in 1..Len(top) : i < j => RanksAhead(tracks, top[i], top[j])
            /\ \A a \in CreditedArtists(tracks) \ Range(top) :
                   \A i \in 1..Len(top) : RanksAhead(tracks, top[i], a)

\* C8 witness: more than 10 artists were counted and one seen after the
\* tenth made the ranking by its count.
C8_Witness ==
    /\ an.pc = "genre"
    /\ Len(an.artist_ids) > TopArtists
    /\ \E i \in (TopArtists + 1)..Len(an.artist_ids) :
           an.artist_ids[i] \in Range(an.top_artist_ids)
    /\ \E i, j \in 1..Len(an.top_artist_ids) :
           /\ i < j
           /\ CreditCount(an.all_tracks, an.top_artist_ids[i])
                 = CreditCount(an.all_tracks, an.top_artist_ids[j])

(***************************************************************************)
(* Claims about score_track                                                *)
(***************************************************************************)
\* score_track has scored a track released in 2021 under era '2020s'.
Scored2021As2020s ==
    /\ sc.pc = "scored"
    /\ sc.result.kind = "score"
    /\ sc.preferences.era = "2020s"
    /\ sc.track.album.release_date # <<>>
    /\ sc.track.album.release_date[1] = 2021

\* The result of the same call for the same track released in 1995.
ScoreOf1995Twin ==
    ScoreTrack([sc.track EXCEPT !.album.release_date[1] = 1995], sc.target_genres,
               sc.user_artist_ids, sc.mb_enrichment, sc.seen_albums, sc.preferences,
               sc.env)

AlbumRepeated ==
    /\ sc.seen_albums.given
    /\ sc.track.album.id # NoId
    /\ sc.track.album.id \in sc.seen_albums.albums

\* C9 as stated: under era '2020s' a track of 2021 scores at least 50
\* points more than the same track of 1995, whatever the other arguments
\* (seen_albums among them) and the same jitter.
C9_EraGapAtLeast50 ==
    Scored2021As2020s =>
        /\ ScoreOf1995Twin.kind = "score"
        /\ sc.result.score - ScoreOf1995Twin.score >= Points(50)

\* C9 amended: under era '2020s' a track of 2021 scores at least 50 points
\* more than the same track of 1995 when its album id is not in
\* seen_albums (or seen_albums is not given); when the album id is in
\* seen_albums the diversity factor 0.85 applies to both scores and the
\* 2021 track scores exactly 42.5 points more.
C9_EraGapUnlessAlbumRepeated ==
    Scored2021As2020s =>
        /\ ScoreOf1995Twin.kind = "score"
        /\ IF AlbumRepeated
           THEN 2 * (sc.result.score - ScoreOf1995Twin.score) = Points(85)
           ELSE sc.result.score - ScoreOf1995Twin.score >= Points(50)

\* C9 witness: a 2021 track scored under era '2020s' with enrichment in
\* use, a discovery bonus and an album that is not in the given seen_albums.
C9_Witness ==
    /\ Scored2021As2020s
    /\ sc.seen_albums.given /\ ~AlbumRepeated
    /\ sc.env.MUSICBRAINZ_AVAILABLE /\ DOMAIN sc.mb_enrichment # {}
    /\ sc.track.artists = <<5>> /\ sc.preferences.discovery > 50
    /\ sc.result.score - ScoreOf1995Twin.score = Points(50)

(***************************************************************************)
(* Claims about playlists                                                  *)
(***************************************************************************)
\* C10: no add-tracks call of create_recommendation_playlist,
\* create_playlist_job or save_liked carries more than 100 URIs (pl.calls
\* holds the number of URIs of each call made), whatever the length of the
\* list.
C10_AtMost100PerCall ==
    \A k \in 1..Len(pl.calls) : pl.calls[k] >= 1 /\ pl.calls[k] <= 100

\* C10 witness: a recommendation list of more than 200 URIs was added in
\* three calls.
C10_Witness ==
    /\ pl.fn = "create_recommendation_playlist"
    /\ pl.result.kind = "success"
    /\ pl.result.track_count > 200
    /\ Len(pl.calls) = 3
    /\ pl.playlist = pl.uris

(***************************************************************************)
(* Claims about generate_recommendations                                   *)
(***************************************************************************)
\* C1: no track returned by generate_recommendations has an id contained
\* in the liked_track_ids of the profile it was given; nor has any
\* candidate collected on the way, from top tracks, album tracks or
\* discovery artists.
C1_NoLikedTrackRecommended ==
    /\ \A i \in 1..Len(rec.candidate_tracks) :
           rec.candidate_tracks[i].id \notin Range(rec.analysis.liked_track_ids)
    /\ rec.result.kind = "tracks" =>
           \A i \in 1..Len(rec.result.tracks) :
               rec.result.tracks[i].id \notin Range(rec.analysis.liked_track_ids)

\* C1 witness: recommendations returned after liked tracks were offered and
\* skipped, with tracks collected from discovery artists.
C1_Witness ==
    /\ rec.pc = "done"
    /\ rec.result.kind = "tracks"
    /\ rec.result.tracks # <<>>
    /\ rec.excluded_count >= 3
    /\ rec.discovery_pool # {}
    /\ rec.calls.album_tracks > 0

\* The ids of the tracks the user has saved.
LibraryIds(lib) == {p \in 1..lib.size : p # lib.local}

\* C2: no track returned by generate_recommendations on the profile that
\* analyze_taste made is a track of the user's library, whatever the size
\* of the library and the outcome of the exclusion fetch.
C2_NoLibraryTrackRecommended ==
    rec.pc = "done" =>
        \A i \in 1..Len(rec.result.tracks) :
            rec.result.tracks[i].id \notin LibraryIds(library)
\* The least number of groups of d that hold n items.
Ceil(n, d) == (n + d - 1) \div d

\* The pages of 50 of a library that hold a URI not carried by an earlier
\* item: a page holding only the repeated item adds nothing.
PagesWithNewUri(lib) ==
    Cardinality({p \in 0..(Ceil(lib.size, MirrorPage) - 1) :
                    \E k \in (p * MirrorPage + 1)..Min((p + 1) * MirrorPage, lib.size) :
                        k # lib.repeat})

\* C11 as stated: a finished run over n tracks has made ceil(n/100)
\* add-tracks calls, in create_recommendation_playlist (n recommendations)
\* and in the liked-songs mirror job (n saved tracks).
C11_CallsAreCeilOf100 ==
    /\ (pl.fn = "create_recommendation_playlist" /\ pl.pc = "done"
            /\ (pl.result.kind = "success" \/ pl.recommendations = <<>>))
          => Len(pl.calls) = Ceil(Len(pl.recommendations), 100)
    /\ (pl.fn = "create_playlist_job" /\ pl.job.status = "done")
          => Len(pl.calls) = Ceil(pl.lib.size, 100)

\* C11 amended: create_recommendation_playlist makes ceil(u/100) add-tracks
\* calls for the u of its n recommendations that carry a URI (none for an
\* empty list); the mirror job makes one call per page of 50 saved tracks
\* that holds a URI not seen before, ceil(n/50) calls for n saved tracks
\* without a repeated URI.
C11_CallsPerBatchAndPage ==
    /\ (pl.fn = "create_recommendation_playlist" /\ pl.pc = "done")
          => /\ pl.recommendations = <<>> => pl.calls = <<>>
             /\ pl.result.kind = "success" =>
                    Len(pl.calls)
                        = Ceil(Len(SelectSeq(pl.recommendations, LAMBDA u : u # NoUri)), 100)
    /\ (pl.fn = "create_playlist_job" /\ pl.job.status = "done")
          => /\ Len(pl.calls) = PagesWithNewUri(pl.lib)
             /\ pl.lib.repeat = 0 => Len(pl.calls) = Ceil(pl.lib.size, 50)

\* C11 witness: the mirror job has copied 250 saved tracks in five calls.
C11_Witness ==
    /\ pl.fn = "create_playlist_job"
    /\ pl.job.status = "done"
    /\ pl.lib.size >= 250
    /\ Len(pl.calls) = 5
    /\ Len(pl.playlist) = pl.lib.size

(***************************************************************************)
(* Claims about the ranking of generate_recommendations                    *)
(***************************************************************************)
\* generate_recommendations has scored its candidates and returned.
Ranked == rec.pc = "done" /\ rec.scored_tracks # <<>>

\* The place of a track id in a list of tracks, 0 when it is not there.
PlaceIn(tracks, id) ==
    IF \E i \in 1..Len(tracks) : tracks[i].id = id
    THEN CHOOSE i \in 1..Len(tracks) : tracks[i].id = id
    ELSE 0

\* The final score given to the candidate with this id.
FinalScore(id) == rec.scored_tracks[PlaceIn(rec.candidate_tracks, id)][2]

\* In a ranking that breaks ties by the order of the list `order`, the
\* track with id a comes before the track with id b.
Outranks(order, a, b) ==
    \/ FinalScore(a) > FinalScore(b)
    \/ FinalScore(a) = FinalScore(b) /\ PlaceIn(order, a) < PlaceIn(order, b)

\* The returned list is the first min(limit, n) of the n candidates ranked
\* by descending final score, ties in the order of the list `order`.
RankedBy(order) ==
    LET out == rec.result.tracks
        ids == {rec.candidate_tracks[i].id : i \in 1..Len(rec.candidate_tracks)}
        kept == {out[i].id : i \in 1..Len(out)}
    IN  /\ Len(out) = Min(rec.limit, Len(rec.candidate_tracks))
        /\ kept \subseteq ids
        /\ \A i, j \in 1..Len(out) : i < j => Outranks(order, out[i].id, out[j].id)
        /\ \A a \in kept, b \in ids \ kept : Outranks(order, a, b)

\* C12 as stated: the returned list is the first min(limit, n) of the n
\* collected candidates by descending final score, candidates of equal
\* score in the order in which they were collected (familiar pool first).
C12_RankedTiesInDiscoveryOrder ==
    /\ rec.pc \in {"done", "raised"} => rec.result.kind = "tracks"
    /\ Ranked => RankedBy(rec.collected)

\* C12 amended: unless score_track raises, in which case nothing is
\* returned, the returned list is the first min(limit, n) of the n collected
\* candidates by descending final score (never more than limit tracks),
\* candidates of equal score in the order random.shuffle left them in.
C12_RankedTiesInShuffledOrder ==
    /\ rec.pc = "raised" => rec.result = [kind |-> "raise", exception |-> "NameError"]
    /\ rec.pc = "done" => rec.result.kind = "tracks"
    /\ Ranked => /\ RankedBy(rec.candidate_tracks)
                 /\ Len(rec.result.tracks) <= rec.limit

\* C12 witness: more candidates than limit were ranked, and two returned
\* tracks of equal score stand in the reverse of their collection order.
C12_Witness ==
    /\ Ranked
    /\ Len(rec.candidate_tracks) > rec.limit
    /\ Len(rec.result.tracks) = rec.limit
    /\ \E i, j \in 1..Len(rec.result.tracks) :
           /\ i < j
           /\ FinalScore(rec.result.tracks[i].id) = FinalScore(rec.result.tracks[j].id)
           /\ PlaceIn(rec.collected, rec.result.tracks[i].id)
                 > PlaceIn(rec.collected, rec.result.tracks[j].id)

\* C13: the list returned by generate_recommendations holds no track id
\* twice and no track without an id.
C13_ReturnedIdsDistinct ==
    rec.result.kind = "tracks" =>
        LET out == rec.result.tracks
        IN  /\ \A i \in 1..Len(out) : out[i].id # NoId
            /\ \A i, j \in 1..Len(out) : out[i].id = out[j].id => i = j

\* C13 witness: track 900 is returned once although the top tracks of
\* artists 1 and 2, the album of artist 1 and the discovery artist 2 all
\* offered it, next to a top track without an id.
C13_Witness ==
    /\ rec.pc = "done"
    /\ rec.result.kind = "tracks"
    /\ rec.top_artist_ids = <<1, 2>>
    /\ rec.calls.album_tracks > 0
    /\ 2 \in Range(rec.discovery_artists)
    /\ rec.calls.top_tracks >= 4
    /\ \E i \in 1..Len(rec.result.tracks) : rec.result.tracks[i].id = 900

(***************************************************************************)
(* Claims about the failures of create_recommendation_playlist             *)
(***************************************************************************)
\* C14: create_recommendation_playlist returns a value for every outcome,
\* a success object or an error object, whether a call fails with an API
\* error, a permission error or a network error; no failure escapes as an
\* exception.
C14_AlwaysReturnsValue ==
    pl.fn = "create_recommendation_playlist" =>
        /\ pl.pc # "raised"
        /\ pl.pc = "done" => pl.result.kind \in {"success", "error"}

\* An add-tracks call of create_recommendation_playlist has failed
\* (pl.answers holds the answer to each add-tracks call made).
BatchFailed ==
    /\ pl.fn = "create_recommendation_playlist"
    /\ \E k \in 1..Len(pl.answers) : pl.answers[k] # "ok"

\* C15: when batch k fails after the playlist was created, the outcome of
\* create_recommendation_playlist is an error, never success; the failed
\* call is the last one made; the playlist holds the tracks of batches
\* 1..k-1, and no step ever takes a track out of the playlist.
C15_FailedBatchKeepsEarlier ==
    /\ [](BatchFailed =>
            /\ pl.pc \in {"done", "raised"}
            /\ pl.result.kind \in {"error", "raise"}
            /\ \A k \in 1..Len(pl.answers) : pl.answers[k] # "ok" => k = Len(pl.answers)
            /\ pl.playlist = Take(pl.uris, AddBatch * (Len(pl.calls) - 1)))
    /\ [][pl.fn = "create_recommendation_playlist" =>
            /\ ~BatchFailed
            /\ Len(pl'.calls) <= Len(pl.calls) + 1
            /\ Len(pl'.playlist) >= Len(pl.playlist)
            /\ Take(pl'.playlist, Len(pl.playlist)) = pl.playlist]_vars

\* C15 witness: the third batch failed after two batches of 100 were added.
C15_Witness ==
    /\ BatchFailed
    /\ pl.result.kind = "error"
    /\ Len(pl.calls) = 3
    /\ Len(pl.playlist) = 2 * AddBatch

(***************************************************************************)
(* Claims about the failures of the liked-songs fetch                      *)
(***************************************************************************)
\* What analyze_taste returns for an empty library.
EmptyLibraryResult == [kind |-> "error", track_count |-> 0]

\* C16: a rate-limit, permission or network failure of the liked-songs
\* fetch reaches the caller of analyze_taste as an outcome that names its
\* cause, so that the three causes differ from each other and from the
\* result of an empty library.
C16_LikedFailureCauseReachesCaller ==
    (Returned(an) /\ an.liked_failure # "none")
        => /\ an.result # EmptyLibraryResult
           /\ an.result.kind = "raise"
           /\ an.result.exception = an.liked_failure

(***************************************************************************)
(* Claims about the enrichment cache                                       *)
(***************************************************************************)
\* The requests that committed a row for this artist, in commit order.
WritersOf(spotify_id) ==
    SelectSeq(mb.commits, LAMBDA r : mb.req[r].spotify_id = spotify_id)

\* The rows that were ever whole in the table: those found at the start
\* and those committed.
WholeRows ==
    Range(mb.initial) \cup {mb.req[mb.commits[k]].row : k \in 1..Len(mb.commits)}

\* C17: whatever the interleaving of the requests, the cache holds at most
\* one row per artist id; once requests have written an artist id its row
\* is the row of the last writer; the rows of an artist id nobody wrote are
\* as they were; and what a reader got from the cache is a whole row.
C17_LastWriterWins ==
    /\ \A id \in {1, 2} :
          /\ Len(RowsOf(mb.table, id)) <= 1
          /\ WritersOf(id) # <<>> =>
                RowsOf(mb.table, id) = <<mb.req[WritersOf(id)[Len(WritersOf(id))]].row>>
          /\ WritersOf(id) = <<>> => RowsOf(mb.table, id) = RowsOf(mb.initial, id)
    /\ \A r \in Requests :
          mb.req[r].cached_data # NoRow => mb.req[r].cached_data \in WholeRows

\* C17 witness: two requests wrote different rows for artist 1, the third
\* request then read the row of the last writer, and the row of artist 2
\* is still there.
C17_Witness ==
    /\ \A r \in Requests : mb.req[r].pc = "done"
    /\ Len(WritersOf(1)) = 2
    /\ mb.req[WritersOf(1)[1]].row # mb.req[WritersOf(1)[2]].row
    /\ \E r \in Requests :
          /\ mb.req[r].cached_data = mb.req[WritersOf(1)[2]].row
          /\ mb.req[r].cached_data.genres = <<"rock", "jazz">>
    /\ Len(RowsOf(mb.table, 2)) = 1

(***************************************************************************)
(* Claims about the genre ranking of the profile                           *)
(***************************************************************************)
\* The analysed tracks that credit an artist carrying the genre.
TracksCovered(tracks, g) ==
    Cardinality({i \in 1..Len(tracks) :
                    \E a \in Range(tracks[i].artists) : g \in Range(ArtistGenres(a))})

\* The top artists that carry the genre.
ArtistsCarrying(top, g) == Cardinality({a \in Range(top) : g \in Range(ArtistGenres(a))})

ComesBefore(order, x, y) ==
    \E i, j \in 1..Len(order) : i < j /\ order[i] = x /\ order[j] = y

\* The profile was returned and its genre tally is not empty.
GenresRanked ==
    /\ an.pc = "done"
    /\ an.result.kind = "profile"
    /\ an.result.genre_seeds # <<>>

\* An artist with more tracks than every other artist is the first of
\* top_artist_ids.
MostCreditedFirst ==
    \A a \in CreditedArtists(an.all_tracks) :
        (\A b \in CreditedArtists(an.all_tracks) \ {a} :
             CreditCount(an.all_tracks, a) > CreditCount(an.all_tracks, b))
            => an.result.top_artist_ids[1] = a

\* The small-library scenario: 15 tracks, 8, 5 and 2 of three artists,
\* 10 of them rock and 5 jazz.
SmallLibrary ==
    /\ Len(an.all_tracks) = 15
    /\ {CreditCount(an.all_tracks, a) : a \in CreditedArtists(an.all_tracks)} = {8, 5, 2}
    /\ TracksCovered(an.all_tracks, "rock") = 10
    /\ TracksCovered(an.all_tracks, "jazz") = 5
    /\ TracksCovered(an.all_tracks, "indie") = 0

\* C18 as stated: a genre whose artists account for more analysed tracks
\* comes before a genre whose artists account for fewer, and the artist
\* with the most tracks is first in top_artist_ids.
C18_GenresRankedByTracks ==
    GenresRanked =>
        /\ \A x, y \in Range(an.result.genre_seeds) :
               TracksCovered(an.all_tracks, x) > TracksCovered(an.all_tracks, y)
                   => ComesBefore(an.result.genre_seeds, x, y)
        /\ MostCreditedFirst

\* C18 amended: a genre carried by more of the top artists comes before a
\* genre carried by fewer, whatever the tracks of these artists; in the
\* small-library scenario genre_seeds is rock, jazz; and the artist with
\* the most tracks is first in top_artist_ids.
C18_GenresRankedByArtists ==
    GenresRanked =>
        /\ \A x, y \in Range(an.result.genre_seeds) :
               ArtistsCarrying(an.result.top_artist_ids, x)
                     > ArtistsCarrying(an.result.top_artist_ids, y)
                   => ComesBefore(an.result.genre_seeds, x, y)
        /\ SmallLibrary => an.result.genre_seeds = <<"rock", "jazz">>
        /\ MostCreditedFirst

\* C18 witness: the small-library scenario was analysed, its genres
\* tallied, and the artist of the 8 tracks is first.
C18_Witness ==
    /\ GenresRanked
    /\ SmallLibrary
    /\ CreditCount(an.all_tracks, an.result.top_artist_ids[1]) = 8
    /\ an.result.top_genres = <<<<"rock", 2>>, <<"jazz", 1>>>>

(***************************************************************************)
(* Claims about the account of the mirror job                              *)
(***************************************************************************)
\* The token of the job belongs to another user than expected_user_id.
TokenOfOtherUser ==
    /\ pl.fn = "create_playlist_job"
    /\ pl.actual_user_id \notin {NoId, ExpectedUser}

\* C19: create_playlist_job calls user_playlist_create and
\* user_playlist_add_tracks only for the account expected_user_id; when the
\* token belongs to another user the job is over with status 'error' and
\* neither call has been made.
C19_MirrorOnlyInExpectedAccount ==
    pl.fn = "create_playlist_job" =>
        /\ \A k \in 1..Len(pl.created) : pl.created[k] = ExpectedUser
        /\ pl.calls # <<>> => pl.actual_user_id = ExpectedUser /\ pl.created # <<>>
        /\ TokenOfOtherUser =>
              /\ pl.pc = "done"
              /\ pl.job.status = "error"
              /\ pl.result = [kind |-> "job_error", exception |-> "ValueError"]
              /\ pl.created = <<>>
              /\ pl.calls = <<>>
              /\ pl.playlist = <<>>

\* C19 witness: a job for a library with tracks found the token of
\* another user.
C19_Witness ==
    /\ TokenOfOtherUser
    /\ pl.lib.size > MirrorPage
    /\ pl.job.status = "error"

(***************************************************************************)
(* Claims about the range of score_track                                   *)
(***************************************************************************)
\* C20: whatever the track, the enrichment (rating 0 to 100), the
\* preferences (mood, era, discovery 0 to 100), seen_albums and the jitter,
\* a score that score_track returns is at least -20 and at most 155.
C20_ScoreWithinRange ==
    (sc.pc = "scored" /\ sc.result.kind = "score") =>
        /\ sc.result.score >= -Points(20)
        /\ sc.result.score <= Points(155)

(***************************************************************************)
(* Claims about repeated playlist creation                                 *)
(***************************************************************************)
\* create_recommendation_playlist has returned success twice.
SucceededTwice ==
    /\ pl.fn = "create_recommendation_playlist"
    /\ pl.pc = "done"
    /\ pl.result.kind = "success"
    /\ Len(pl.earlier) = 1
    /\ pl.earlier[1].kind = "success"

\* C21: after two successful invocations of create_recommendation_playlist
\* with the same user, name and tracks the account holds one playlist of
\* that name with each track once, as after a single invocation.
C21_TwiceAsOnce ==
    SucceededTwice => pl.account = <<pl.uris>>

(***************************************************************************)
(* Claims about the hard ceiling of analyze_taste                          *)
(***************************************************************************)
\* The elapsed time measured right after the liked-songs fetch exceeded
\* the ceiling of 10 seconds.
CeilingExceeded == an.gate.liked > HardCeiling

\* C22: when the elapsed time measured right after the liked-songs fetch
\* exceeds 10 seconds, analyze_taste has raised TimeoutException, whatever
\* max_analysis_time and the tracks fetched, and no playlist, genre or
\* audio-feature call is made.
C22_CeilingAborts ==
    CeilingExceeded =>
        /\ an.pc = "raised"
        /\ an.result = [kind |-> "raise", exception |-> "TimeoutException"]
        /\ an.calls.playlists = 0
        /\ an.calls.playlist_items = 0
        /\ an.calls.artists = 0
        /\ an.calls.audio_features = 0
        /\ an.ran = {}

\* C22 witness: the ceiling was exceeded although liked tracks were
\* fetched, playlists were asked for and the budget is 20 seconds.
C22_Witness ==
    /\ CeilingExceeded
    /\ an.liked_tracks # <<>>
    /\ an.include_playlists /\ an.playlist_limit > 0
    /\ an.max_analysis_time = 20

(***************************************************************************)
(* Claims about the retries of the analyzer's fetches                      *)
(***************************************************************************)
\* The last call was the first attempt of its page and ended with a
\* transient API error (SpotifyException).
TransientFirst == an2.outcome = "spotify_error" /\ an2.attempt = 1

\* C23: at every call site of the analyzer a first attempt of a page that
\* fails with a transient API error leaves the fetch at that call site, the
\* next call is the second attempt of the same page, and no page is
\* attempted more than twice.
C23_TransientErrorRetriedOnce ==
    /\ [](an2.attempt <= 2)
    /\ [](TransientFirst => an.pc = an2.site)
    /\ [][TransientFirst =>
             /\ an2'.site = an2.site
             /\ an2'.offset = an2.offset
             /\ an2'.attempt = 2]_vars

CompleteExclusionIds ==
    IdsOf(SelectSeq(CurrentUserSavedTracks(library, ExclusionLimit, 0), HasId))

\* The profile was returned after an exclusion fetch that a failing page
\* cut short.
ExclusionIncomplete ==
    /\ an.pc = "done"
    /\ an.result.kind = "profile"
    /\ an.liked_song_ids_for_exclusion # CompleteExclusionIds

\* C25: when the exclusion fetch ended incomplete, liked_track_ids of the
\* profile holds the id of every track fetched during the analysis (liked
\* songs and playlist tracks).
C25_IncompleteExclusionCoversFetched ==
    ExclusionIncomplete =>
        \A t \in Range(an.liked_tracks) \cup Range(an.playlist_tracks) :
            HasId(t) => t.id \in Range(an.result.liked_track_ids)

(***************************************************************************)
(* Claims about the playlist stage                                         *)
(***************************************************************************)
\* C26: when the playlist stage runs, it reads the tracks of at most
\* playlist_limit playlists (the stage reads one playlist once it asks for
\* playlist items) and adds at most tracks_per_playlist tracks of a
\* playlist to the analysed tracks.
C26_PlaylistStageWithinLimits ==
    "playlists" \in an.ran =>
        /\ an.calls.playlist_items > 0 => 1 <= an.playlist_limit
        /\ Len(an.playlist_tracks) <= an.tracks_per_playlist

\* analyze_taste was called with its default arguments.
DefaultArguments ==
    /\ ~an.include_playlists /\ an.playlist_limit = 0 /\ an.tracks_per_playlist = 3
    /\ an.liked_songs_limit = 15 /\ an.max_analysis_time = 20
    /\ "playlists" \notin an.skipped

PlaylistCallsMade == an.calls.playlists + an.calls.playlist_items

\* C27: with the default arguments analyze_taste makes no playlist call;
\* a playlist call is made only when include_playlists is true,
\* playlist_limit is positive and the elapsed time at the playlist gate
\* is within 30% of max_analysis_time.
C27_PlaylistCallsOnlyOnRequest ==
    /\ DefaultArguments => PlaylistCallsMade = 0
    /\ PlaylistCallsMade > 0 =>
          /\ an.include_playlists
          /\ an.playlist_limit > 0
          /\ an.gate.playlists >= 0
          /\ ~Exceeds(an.gate.playlists, an.max_analysis_time, 3)

\* C27 witness: a run with the default arguments returned a profile of
\* liked tracks without a playlist call.
C27_Witness ==
    /\ DefaultArguments
    /\ an.pc = "done" /\ an.result.kind = "profile"
    /\ an.liked_tracks # <<>>
    /\ PlaylistCallsMade = 0

\* C27 second case: playlist calls were made, right at 30% of the budget.
C27_CallsMade ==
    /\ PlaylistCallsMade > 1
    /\ an.gate.playlists * 10 = an.max_analysis_time * 3

\* get_liked_songs has returned.
LikedFetched == an.gate.liked >= 0

LikedWithinLimit ==
    /\ Len(an.liked_tracks) <= an.liked_songs_limit
    /\ \A i \in 1..Len(an.liked_tracks) : HasId(an.liked_tracks[i])

\* The tracks with an id on the first page of the library.
PageAtStart ==
    Take(SelectSeq(CurrentUserSavedTracks(library, Min(an.liked_songs_limit, LikedPageMax), 0),
                   HasId),
         an.liked_songs_limit)

DiscoveryCalls == rec.calls.related + rec.calls.search

TracksReturned == rec.pc = "done" /\ rec.result.kind = "tracks"

\* A track was collected in PART A for an artist of the working set.
FromFamiliarSet(track) ==
    /\ track \in Range(rec.collected)
    /\ track.id \notin rec.discovery_pool
    /\ \E i \in 1..Len(track.artists) : track.artists[i] \in Range(rec.top_artist_ids)

\* C29: generate_recommendations makes related-artist and genre-search
\* calls only when preferences.discovery > 20; with discovery <= 20 every
\* returned track was collected from the familiar working set of artists.
C29_DiscoveryOnlyAboveTwenty ==
    /\ DiscoveryCalls > 0 => rec.preferences.discovery > 20
    /\ (TracksReturned /\ rec.preferences.discovery <= 20) =>
          \A i \in 1..Len(rec.result.tracks) : FromFamiliarSet(rec.result.tracks[i])

\* C29 witness: a request with discovery at exactly 20 returned tracks
\* without a related-artist or genre-search call.
C29_Witness ==
    /\ TracksReturned
    /\ rec.preferences.discovery = 20
    /\ rec.result.tracks # <<>>
    /\ DiscoveryCalls = 0

\* C29 second case: at 21 the related-artist lookup and the genre search ran.
C29_DiscoveryRan ==
    /\ TracksReturned
    /\ rec.preferences.discovery = 21
    /\ rec.calls.related > 0 /\ rec.calls.search > 0
    /\ rec.discovery_pool # {}

\* The artists whose top tracks were collected in PART B.
PoolArtists ==
    {c.artists[1] : c \in {t \in Range(rec.candidate_tracks) : t.id \in rec.discovery_pool}}

\* The related-artist lookups are over.
RelatedLookedUp ==
    rec.pc \in {"genre_search", "discovery_order", "discovery_tracks", "shuffle", "score", "done"}
        /\ rec.calls.related > 0

\* C30: no artist whose tracks are collected in the discovery pool is a
\* member of the familiar working set of the same request, whether the
\* artist came from the related-artists lookup or from the genre search;
\* the genre-search fallback runs exactly when fewer than 5 related
\* artists were found.
C30_DiscoveryArtistsAreNew ==
    /\ PoolArtists \cap Range(rec.top_artist_ids) = {}
    /\ rec.calls.search > 0 => RelatedLookedUp
    /\ (rec.pc = "discovery_order" /\ rec.user_genres # <<>>) =>
          (rec.calls.search > 0 <=>
              Len(rec.related_artist_ids) - Len(rec.discovered_artists) < 5)

\* What the discovery slider added to a score: the score less the score of
\* the same call with the slider at 50, where the term is skipped.
SliderTerm ==
    sc.result.score
    - ScoreTrack(sc.track, sc.target_genres, sc.user_artist_ids, sc.mb_enrichment,
                 sc.seen_albums, [sc.preferences EXCEPT !.discovery = 50], sc.env).score

\* C31: a discovery value outside 0..100 is clamped to that range before
\* use, so the discovery-slider term of score_track adds between 0 and 10
\* points for every integer discovery value a caller passes.
C31_SliderTermWithinTen ==
    (sc.pc = "scored" /\ sc.result.kind = "score") =>
        /\ sc.preferences.discovery \in 0..100
        /\ SliderTerm >= 0 /\ SliderTerm <= Points(10)

\* C32: the fixed seed of the audio-feature sampling affects only that
\* sampling step: for any number of analysed tracks every draw of a
\* following generate_recommendations (artist sub-sample, discovery
\* shuffle, candidate shuffle, jitter) comes from the unseeded generator,
\* and two analyses over the same track set sample the same track ids for
\* audio features.
C32_SeedOnlyForAudioSample ==
    /\ an.seeded_draws = 0
    /\ an.pc \in Range(DrawSites) => ~an.rng.seeded
    /\ an.pc = "done" => an.audio_track_ids[1] = an.audio_track_ids[2]

\* C33: no two requests to the enrichment service are sent less than 1
\* second apart, for any interleaving of the request threads that share
\* the process-wide enricher.
C33_RequestsOneSecondApart ==
    \A i \in 1..Len(mb.sent) : \A j \in 1..Len(mb.sent) :
        i < j => mb.sent[j].at - mb.sent[i].at >= MB_RATE_LIMIT_DELAY

\* C34: batch_enrich_artists(artists, max_new_lookups = k) sends at most k
\* requests to the MusicBrainz API, for every artist list and every cache
\* content; artists beyond that allowance get an empty enrichment marked
\* skipped and cause no request.
C34_BatchSendsAtMostK ==
    mb.last.op = "batch_enrich_artists" =>
        /\ mb.last.sent <= mb.last.max_new_lookups
        /\ \A a \in DOMAIN mb.last.enriched :
              mb.last.enriched[a] = Skipped => a \notin mb.last.looked_up

\* An earlier enrich_artist run for the artist lies within the freshness
\* window of the last call.
RanWithinWindow(a) ==
    /\ mb.last.ran[a].at >= 0
    /\ mb.last.at - mb.last.ran[a].at < MaxAgeDays

\* The last call found an entry of the artist older than 30 days.
EntryTooOld(a) ==
    \E i \in 1..Len(mb.last.table) :
        /\ mb.last.table[i].spotify_id = a
        /\ mb.last.table[i].cached_at < mb.last.at - MaxAgeDays

ServedFromCache(a) ==
    /\ mb.last.enriched[a].from_cache
    /\ a \notin mb.last.looked_up

\* The last call made all the lookups it was allowed and skipped the artist.
SkippedForAllowance(a) ==
    /\ mb.last.op = "batch_enrich_artists"
    /\ mb.last.enriched[a] = Skipped
    /\ Cardinality(mb.last.looked_up) >= mb.last.max_new_lookups

\* C35 as stated: after enrich_artist has run for an artist id (found, not
\* found or failed), every later enrich_artist or batch_enrich_artists
\* call for that id within the 30-day window answers from the cache
\* without a request; an entry older than 30 days is never served and
\* triggers a new lookup.
C35_StaleAlwaysLookedUp ==
    mb.last.op # "none" =>
        /\ mb.last.looked_up = {} => mb.last.sent = 0
        /\ \A a \in Range(mb.last.artists) :
              /\ RanWithinWindow(a) => ServedFromCache(a)
              /\ EntryTooOld(a) =>
                    (~mb.last.enriched[a].from_cache /\ a \in mb.last.looked_up)

\* C35 amended: as stated, except that batch_enrich_artists looks an
\* artist with an entry older than 30 days up only while fewer than
\* max_new_lookups lookups were made in the call; after that the artist is
\* marked skipped, still without being served from the cache.
C35_StaleLookedUpWithinAllowance ==
    mb.last.op # "none" =>
        /\ mb.last.looked_up = {} => mb.last.sent = 0
        /\ \A a \in Range(mb.last.artists) :
              /\ RanWithinWindow(a) => ServedFromCache(a)
              /\ EntryTooOld(a) =>
                    /\ ~mb.last.enriched[a].from_cache
                    /\ a \in mb.last.looked_up \/ SkippedForAllowance(a)

\* C35 witness: 29 days after a lookup of an artist had failed, a call for
\* that artist was answered from the cache without a request, while the
\* entry of another artist had grown older than 30 days and was looked up.
C35_Witness ==
    /\ mb.last.op = "batch_enrich_artists"
    /\ \E a \in Range(mb.last.artists) :
          /\ mb.last.ran[a].how = "error"
          /\ mb.last.at - mb.last.ran[a].at = MaxAgeDays - 1
          /\ ServedFromCache(a)
    /\ \E a \in Range(mb.last.artists) : EntryTooOld(a) /\ a \in mb.last.looked_up

(***************************************************************************)
(* Claims about the job records of the liked-songs mirror                  *)
(***************************************************************************)
\* Every URI the paginated current_user_saved_tracks calls return for a
\* library.
FetchedUris(lib) == {SavedUri(lib, p) : p \in 1..lib.size}

\* C36: the mirror job adds each liked-track URI to the new playlist at most
\* once, and when it ends in status 'done' the playlist holds every URI the
\* paginated fetch returned and progress = total = the number of URIs added.
C36_MirrorCopiesEachUriOnce ==
    pl.fn = "create_playlist_job" =>
        /\ Cardinality(Range(pl.playlist)) = Len(pl.playlist)
        /\ pl.job.status = "done" =>
              /\ Range(pl.playlist) = FetchedUris(pl.lib)
              /\ pl.job.progress = Len(pl.playlist)
              /\ pl.job.total = pl.job.progress

\* C36 witness: a finished job over more than two pages, one saved item
\* repeating the URI of the item before it.
C36_Witness ==
    /\ pl.fn = "create_playlist_job"
    /\ pl.job.status = "done"
    /\ pl.lib.size > 2 * MirrorPage
    /\ pl.lib.repeat # 0
    /\ pl.job.total = pl.lib.size - 1
    /\ Len(pl.playlist) = pl.lib.size - 1

\* C37: a /job_status response that reports status 'done' also holds
\* playlist_url and playlist_name and a total equal to progress, at whatever
\* moment of the job the poll is answered.
C37_DoneResponseIsComplete ==
    \A r \in Range(pl.response) :
        r.status = "done" =>
            /\ r.playlist_url # Absent
            /\ r.playlist_name # Absent
            /\ r.total = <<r.progress>>

\* One step of the job record: the status moves only from pending to working
\* and from working to done or error, and progress does not go down.
JobRecordStep ==
    /\ pl'.job.status # pl.job.status =>
          <<pl.job.status, pl'.job.status>>
              \in {<<"pending", "working">>, <<"working", "done">>, <<"working", "error">>}
    /\ pl'.job.progress >= pl.job.progress

\* The thread has ended: after an exception the job is in error with a
\* message, otherwise it is done.
JobEndRecorded ==
    pl.pc = "end" =>
        IF pl.exception # "none"
        THEN pl.job.status = "error" /\ pl.job.message # Absent
        ELSE pl.job.status = "done"

\* C39: the status of a mirror job only moves pending -> working -> done or
\* pending -> working -> error, done and error are never left, every failed
\* API call inside the job ends in 'error' with a message, and progress never
\* decreases.
C39_JobLifecycle == []JobEndRecorded /\ [][JobRecordStep]_vars

\* C39 witness: a job that failed after it had added tracks has ended in
\* error with a message and its progress kept, and was polled after that.
C39_Witness ==
    /\ pl.pc = "end"
    /\ pl.exception \in {"spotify_error", "network_error"}
    /\ pl.job.status = "error"
    /\ pl.job.message # Absent
    /\ pl.job.progress >= MirrorPage
    /\ \E r \in Range(pl.response) : r = pl.job

(***************************************************************************)
(* Claims about score_track when the artist lookup fails                   *)
(***************************************************************************)
\* C38: score_track returns a numeric score whatever the outcome of the
\* sp.artist lookup (answer, API error, track without artist ids), also when
\* the enrichment data of the primary artist carries genres; a failed lookup
\* never makes score_track raise.
C38_ScoreTrackNeverRaises ==
    sc.pc = "scored" => sc.result.kind = "score"
====
